---- MODULE Spec2Model ----
(***************************************************************************)
(* A model of ietfparse: the header parsers of ietfparse.headers, the      *)
(* value types of ietfparse.datastructures, the Link ParameterParser of   *)
(* ietfparse._helpers and select_content_type of ietfparse.algorithms.    *)
(*                                                                         *)
(* A Python str is a sequence of one-character strings, so that split,     *)
(* strip, lower, partition and the regular expressions act on characters   *)
(* as they do in the code.  A raised exception is a value: every function  *)
(* that can raise returns [exc |-> <class name or "">, val |-> <result>].  *)
(***************************************************************************)
EXTENDS Integers, Sequences, FiniteSets, TLC

VARIABLES
    pc,             \* which library call, if any, the caller has made
    header_value,   \* parse_accept: the header text
    strict,         \* parse_accept: the strict keyword
    accepted,       \* parse_accept: what the call returned or raised
    requested,      \* select_content_type: the patterns
    available,      \* select_content_type: the candidates
    default,        \* select_content_type: the default, or NoDefault
    selected,       \* select_content_type: what the call returned or raised
    pp_strict,      \* ParameterParser.strict
    _values,        \* ParameterParser._values
    _rfc_values,    \* ParameterParser._rfc_values
    fed,            \* the (name, value) pairs given to add_value so far
    emitted,        \* the last list read from ParameterParser.values
    written,        \* the pieces the caller put into the header text
    argument,       \* the header text given to any other parser
    flag,           \* that call's keyword argument, FALSE if it has none
    returned,       \* what that call returned or raised
    reparsed,       \* the parse of str(x) of a returned x
    subject,        \* the returned object that the caller goes on to use
    raised          \* the error that rejected the caller's last operation on it

vars == <<pc, header_value, strict, accepted, requested, available, default,
          selected, pp_strict, _values, _rfc_values, fed, emitted,
          written, argument, flag, returned, reparsed, subject, raised>>

acceptVars == <<header_value, strict, accepted>>
selectVars == <<requested, available, default, selected>>
parserVars == <<pp_strict, _values, _rfc_values, fed, emitted>>
callVars == <<written, argument, flag, returned, reparsed, subject,
              raised>>

(***************************************************************************)
(* Python values                                                           *)
(***************************************************************************)

\* None, as a value that can stand where a str or a list is expected.
None == <<"<None>">>

Ok(v) == [exc |-> "", val |-> v]
Raise(e) == [exc |-> e, val |-> <<>>]
\* raise StrictHeaderParsingFailure(header_name, header_value)
RaiseWith(e, header_name, header_value_) ==
    [exc |-> e, val |-> <<header_name, header_value_>>]

\* except ValueError: the classes of errors.py that derive from ValueError.
IsValueError(e) ==
    e \in {"ValueError", "StrictHeaderParsingFailure", "MalformedContentType"}

Range(s) == {s[i] : i \in 1..Len(s)}

Reverse(s) == [i \in 1..Len(s) |-> s[Len(s) + 1 - i]]

(***************************************************************************)
(* str methods                                                             *)
(***************************************************************************)

\* The sentinel that parse_list puts in place of a quoted comma.
NUL == "\\000"

Whitespace == {" ", "\t"}

Upper ==
    <<"A", "B", "C", "D", "E", "F", "G", "H", "I", "J", "K", "L", "M", "N",
      "O", "P", "Q", "R", "S", "T", "U", "V", "W", "X", "Y", "Z">>

Lower ==
    <<"a", "b", "c", "d", "e", "f", "g", "h", "i", "j", "k", "l", "m", "n",
      "o", "p", "q", "r", "s", "t", "u", "v", "w", "x", "y", "z">>

LowerChar(c) ==
    IF \E i \in 1..26 : Upper[i] = c
    THEN Lower[CHOOSE i \in 1..26 : Upper[i] = c]
    ELSE c

lower(s) == [i \in 1..Len(s) |-> LowerChar(s[i])]

RECURSIVE lstrip(_)
lstrip(s) ==
    IF s # <<>> /\ Head(s) \in Whitespace THEN lstrip(Tail(s)) ELSE s

RECURSIVE rstrip(_)
rstrip(s) ==
    IF s # <<>> /\ s[Len(s)] \in Whitespace
    THEN rstrip(SubSeq(s, 1, Len(s) - 1))
    ELSE s

strip(s) == lstrip(rstrip(s))

\* s.replace(old, new) for one-character old and new.
replace(s, old, new) == [i \in 1..Len(s) |-> IF s[i] = old THEN new ELSE s[i]]

\* s.find(sub, start): the least index >= start at which sub occurs, 1-based,
\* and 0 when there is none.  The empty sub is found at start.
StartsAt(s, sub, i) ==
    /\ i + Len(sub) - 1 <= Len(s)
    /\ \A k \in 1..Len(sub) : s[i + k - 1] = sub[k]

find(s, sub, start) ==
    LET Least(hits) ==
            IF hits = {} THEN 0 ELSE CHOOSE i \in hits : \A j \in hits : i <= j
    IN  Least({i \in start..(Len(s) + 1) : StartsAt(s, sub, i)})

\* s.split(sep) for a one-character sep: always at least one piece.
RECURSIVE split(_, _)
split(s, sep) ==
    LET At(i) ==
            IF i = 0
            THEN <<s>>
            ELSE <<SubSeq(s, 1, i - 1)>>
                 \o split(SubSeq(s, i + 1, Len(s)), sep)
    IN  At(find(s, <<sep>>, 1))

\* s.partition(sep): (left, sep, right) at the first occurrence of sep, and
\* (s, '', '') when sep does not occur.  An empty sep raises ValueError.
partition(s, sep) ==
    LET At(i) ==
            IF i = 0
            THEN Ok(<<s, <<>>, <<>> >>)
            ELSE Ok(<<SubSeq(s, 1, i - 1), sep,
                      SubSeq(s, i + Len(sep), Len(s))>>)
    IN  IF sep = <<>> THEN Raise("ValueError") ELSE At(find(s, sep, 1))

RECURSIVE join(_, _)
join(sep, parts) ==
    IF parts = <<>> THEN <<>>
    ELSE IF Len(parts) = 1 THEN parts[1]
    ELSE parts[1] \o sep \o join(sep, Tail(parts))

(***************************************************************************)
(* dict: the (key, value) pairs in insertion order, keys distinct          *)
(***************************************************************************)

DictHas(d, k) == \E i \in 1..Len(d) : d[i][1] = k

DictGet(d, k) == d[CHOOSE i \in 1..Len(d) : d[i][1] = k][2]

\* d[k] = v: a key already present keeps its place and takes the new value.
DictSet(d, k, v) ==
    IF DictHas(d, k)
    THEN [i \in 1..Len(d) |-> IF d[i][1] = k THEN <<k, v>> ELSE d[i]]
    ELSE Append(d, <<k, v>>)

\* del d[k]
DictDel(d, k) == SelectSeq(d, LAMBDA kv : kv[1] # k)

\* dict(pairs)
RECURSIVE DictOf(_)
DictOf(pairs) ==
    IF pairs = <<>> THEN <<>>
    ELSE LET n == Len(pairs)
         IN  DictSet(DictOf(SubSeq(pairs, 1, n - 1)), pairs[n][1], pairs[n][2])

\* d1 == d2 for dicts: the same keys with the same values, in any order.
DictEq(d1, d2) == Range(d1) = Range(d2)

(***************************************************************************)
(* float: a number is counted in units of 10^-8, which tells 5.00000001    *)
(* from 5.0; nan compares unequal to, and not greater than, everything.    *)
(***************************************************************************)

FloatUnit == 10000 * 10000

Float(n) == [kind |-> "float", v |-> n]
NaN == [kind |-> "nan", v |-> 0]
NoQuality == [kind |-> "None", v |-> 0]

FloatEq(a, b) == a.kind = "float" /\ b.kind = "float" /\ a.v = b.v
FloatGt(a, b) == a.kind = "float" /\ b.kind = "float" /\ a.v > b.v
FloatLt(a, b) == a.kind = "float" /\ b.kind = "float" /\ a.v < b.v

Digits == {"0", "1", "2", "3", "4", "5", "6", "7", "8", "9"}

DigitVal(c) ==
    CASE c = "0" -> 0 [] c = "1" -> 1 [] c = "2" -> 2 [] c = "3" -> 3
      [] c = "4" -> 4 [] c = "5" -> 5 [] c = "6" -> 6 [] c = "7" -> 7
      [] c = "8" -> 8 [] c = "9" -> 9

AllDigits(s) == \A i \in 1..Len(s) : s[i] \in Digits

RECURSIVE IntVal(_)
IntVal(s) ==
    IF s = <<>> THEN 0
    ELSE 10 * IntVal(SubSeq(s, 1, Len(s) - 1)) + DigitVal(s[Len(s)])

\* The fraction digits f as a count of 10^-8: digits past the eighth are
\* below the unit and dropped.
RECURSIVE FracVal(_, _)
FracVal(f, unit) ==
    IF f = <<>> \/ unit = 0 THEN 0
    ELSE DigitVal(Head(f)) * unit + FracVal(Tail(f), unit \div 10)

\* float(s) for the spellings the Accept grammar and its misuse give rise to:
\* digits with an optional fraction, and nan; any other text is a ValueError.
float(s) ==
    LET Number(parts) ==
            IF /\ Len(parts) \in {1, 2}
               /\ \A i \in 1..Len(parts) : AllDigits(parts[i])
               /\ \E i \in 1..Len(parts) : parts[i] # <<>>
            THEN Ok(Float(IntVal(parts[1]) * FloatUnit
                          + (IF Len(parts) = 2
                             THEN FracVal(parts[2], FloatUnit \div 10)
                             ELSE 0)))
            ELSE Raise("ValueError")
        Text(t) ==
            IF t = <<"n", "a", "n">> THEN Ok(NaN) ELSE Number(split(t, "."))
    IN  Text(lower(strip(s)))

(***************************************************************************)
(* ietfparse.headers: the tokenizer                                        *)
(***************************************************************************)

Quote == "\""

\* _QUOTED_SEGMENT_RE.findall(value): the text between each pair of double
\* quotes, pairs taken from the left.
RECURSIVE findall_quoted(_)
findall_quoted(value) ==
    LET Close(i, j) ==
            IF j = 0
            THEN <<>>
            ELSE <<SubSeq(value, i + 1, j - 1)>>
                 \o findall_quoted(SubSeq(value, j + 1, Len(value)))
        Open(i) == Close(i, IF i = 0 THEN 0 ELSE find(value, <<Quote>>, i + 1))
    IN  Open(find(value, <<Quote>>, 1))

_dequote(value) ==
    IF value = <<>>
    THEN Raise("IndexError")
    ELSE IF value[1] = Quote /\ value[Len(value)] = Quote
         THEN Ok(SubSeq(value, 2, Len(value) - 1))
         ELSE Ok(value)

\* The loop of parse_list over the quoted segments: the first occurrence of
\* each segment's text in value has its commas replaced by the sentinel.
RECURSIVE protect_commas(_, _)
protect_commas(value, segments) ==
    LET Cut(p) ==
            IF p.exc # "" THEN p
            ELSE protect_commas(
                     p.val[1] \o replace(p.val[2], ",", NUL) \o p.val[3],
                     Tail(segments))
    IN  IF segments = <<>> THEN Ok(value)
        ELSE Cut(partition(value, Head(segments)))

\* [_dequote(x.strip()).replace('\000', ',') for x in pieces]
RECURSIVE dequote_each(_)
dequote_each(pieces) ==
    LET Rest(d, rest) ==
            IF rest.exc # "" THEN rest
            ELSE Ok(<<replace(d.val, NUL, ",")>> \o rest.val)
        First(d) ==
            IF d.exc # "" THEN d ELSE Rest(d, dequote_each(Tail(pieces)))
    IN  IF pieces = <<>> THEN Ok(<<>>)
        ELSE First(_dequote(strip(Head(pieces))))

parse_list(value) ==
    LET Pieces(protected) ==
            IF protected.exc # "" THEN protected
            ELSE dequote_each(split(protected.val, ","))
    IN  Pieces(protect_commas(value, findall_quoted(value)))

\* _COMMENT_RE.sub('', value): \(.*\) is greedy, so the one match on a line
\* runs from the first "(" to the last ")" after it.
_remove_comments(value) ==
    LET Cut(i, closes) ==
            IF i = 0 \/ closes = {}
            THEN value
            ELSE LET j == CHOOSE c \in closes : \A d \in closes : d <= c
                 IN  SubSeq(value, 1, i - 1) \o SubSeq(value, j + 1, Len(value))
        From(i) == Cut(i, {j \in 1..Len(value) : value[j] = ")" /\ j > i})
    IN  From(find(value, <<"(">>, 1))

\* One parameter of _parse_parameter_list, after param.strip() was found
\* non-empty.
parse_parameter(param, normalize_parameter_names, normalize_parameter_values, strip_interior_whitespace) ==
    LET Pair(name, d) == IF d.exc # "" THEN d ELSE Ok(<<name, d.val>>)
        Value(name, value) ==
            Pair(IF normalize_parameter_names THEN lower(name) ELSE name,
                 _dequote(strip(IF normalize_parameter_values
                                THEN lower(value) ELSE value)))
        NameValue(nv) ==
            IF Len(nv) # 2
            THEN Raise("ValueError")
            ELSE Value(IF strip_interior_whitespace
                       THEN strip(nv[1]) ELSE nv[1],
                       IF strip_interior_whitespace
                       THEN strip(nv[2]) ELSE nv[2])
    IN  NameValue(split(param, "="))

RECURSIVE _parse_parameter_list(_, _, _, _)
_parse_parameter_list(parameter_list, normalize_parameter_names, normalize_parameter_values, strip_interior_whitespace) ==
    LET Rest(param, one, rest) ==
            IF rest.exc # "" THEN rest
            ELSE Ok((IF param = <<>> THEN <<>> ELSE <<one.val>>) \o rest.val)
        One(param, one) ==
            IF one.exc # "" THEN one
            ELSE Rest(param, one,
                      _parse_parameter_list(Tail(parameter_list),
                                            normalize_parameter_names,
                                            normalize_parameter_values,
                                            strip_interior_whitespace))
        Param(param) ==
            One(param,
                IF param = <<>>
                THEN Ok(<<>>)
                ELSE parse_parameter(param, normalize_parameter_names,
                                     normalize_parameter_values,
                                     strip_interior_whitespace))
    IN  IF parameter_list = <<>> THEN Ok(<<>>)
        ELSE Param(strip(Head(parameter_list)))

(***************************************************************************)
(* ietfparse.datastructures.ContentType                                    *)
(***************************************************************************)

\* for name in parameters: self.parameters[name.lower()] = str(...)
RECURSIVE LowerKeys(_)
LowerKeys(parameters) ==
    IF parameters = <<>> THEN <<>>
    ELSE LET n == Len(parameters)
         IN  DictSet(LowerKeys(SubSeq(parameters, 1, n - 1)),
                     lower(parameters[n][1]), parameters[n][2])

\* ContentType.__init__
ContentType(content_type, content_subtype, parameters, content_suffix) ==
    [content_type    |-> lower(strip(content_type)),
     content_subtype |-> lower(strip(content_subtype)),
     content_suffix  |-> IF content_suffix # None
                         THEN lower(strip(content_suffix))
                         ELSE None,
     parameters      |-> LowerKeys(parameters),
     quality         |-> NoQuality]

\* A faulty __eq__ that forgets the suffix and the parameters.
ContentTypeEq_without_parameters(self, other) ==
    /\ self.content_type = other.content_type
    /\ self.content_subtype = other.content_subtype

\* ContentType.__eq__: the quality takes no part.
ContentTypeEq(self, other) ==
    /\ self.content_type = other.content_type
    /\ self.content_subtype = other.content_subtype
    /\ self.content_suffix = other.content_suffix
    /\ DictEq(self.parameters, other.parameters)

\* ord(c) for the characters that reach a type or subtype name.
Ord(c) ==
    CASE c = "\t" -> 9 [] c = " " -> 32 [] c = Quote -> 34 [] c = "(" -> 40
      [] c = ")" -> 41 [] c = "*" -> 42 [] c = "+" -> 43 [] c = "," -> 44
      [] c = "-" -> 45 [] c = "." -> 46 [] c = "/" -> 47
      [] c \in Digits -> 48 + DigitVal(c) [] c = ";" -> 59 [] c = "<" -> 60
      [] c = "=" -> 61 [] c = ">" -> 62
      [] c \in Range(Upper) -> 64 + (CHOOSE i \in 1..26 : Upper[i] = c)
      [] c \in Range(Lower) -> 96 + (CHOOSE i \in 1..26 : Lower[i] = c)

\* str.__lt__: by the first differing character, a proper prefix first.
RECURSIVE StrLt(_, _)
StrLt(a, b) ==
    IF b = <<>> THEN FALSE
    ELSE IF a = <<>> THEN TRUE
    ELSE IF Head(a) = Head(b) THEN StrLt(Tail(a), Tail(b))
    ELSE Ord(Head(a)) < Ord(Head(b))

\* ContentType.__lt__
ContentTypeLt(self, other) ==
    IF self.content_type = <<"*">> /\ other.content_type # <<"*">> THEN TRUE
    ELSE IF self.content_subtype = <<"*">> /\ other.content_subtype # <<"*">>
    THEN TRUE
    ELSE IF Len(self.parameters) < Len(other.parameters) THEN TRUE
    ELSE IF self.content_type = other.content_type
    THEN StrLt(self.content_subtype, other.content_subtype)
    ELSE StrLt(self.content_type, other.content_type)

\* ContentType.__gt__ as functools.total_ordering derives it from __lt__:
\* not (self < other) and self != other.
ContentTypeGt(self, other) ==
    ~ContentTypeLt(self, other) /\ ~ContentTypeEq(self, other)

(***************************************************************************)
(* sorted(): CPython's list.sort on a list shorter than 64 items is one    *)
(* run found by count_run followed by a binary insertion sort, and asks    *)
(* only "is x < y".  lt[i][j] is that answer for the i-th and j-th item of *)
(* the list; the result is the list of item numbers in sorted order.       *)
(***************************************************************************)

\* The length of the run that starts the list and whether it descends.
RECURSIVE RunEnd(_, _, _, _)
RunEnd(lt, n, k, descending) ==
    IF k >= n THEN n
    ELSE IF lt[k + 1][k] = descending
    THEN RunEnd(lt, n, k + 1, descending)
    ELSE k

RECURSIVE BinaryPlace(_, _, _, _, _)
BinaryPlace(lt, a, pivot, l, r) ==
    IF l >= r THEN l
    ELSE LET p == l + ((r - l) \div 2)
         IN  IF lt[pivot][a[p]]
             THEN BinaryPlace(lt, a, pivot, l, p)
             ELSE BinaryPlace(lt, a, pivot, p + 1, r)

RECURSIVE BinarySort(_, _, _)
BinarySort(lt, a, start) ==
    IF start > Len(a) THEN a
    ELSE LET pivot == a[start]
             l == BinaryPlace(lt, a, pivot, 1, start)
         IN  BinarySort(lt,
                        SubSeq(a, 1, l - 1) \o <<pivot>>
                            \o SubSeq(a, l, start - 1)
                            \o SubSeq(a, start + 1, Len(a)),
                        start + 1)

SortedOrder(lt, n) ==
    IF n < 2 THEN [i \in 1..n |-> i]
    ELSE LET descending == lt[2][1]
             run == RunEnd(lt, n, 2, descending)
             a == [i \in 1..n |->
                      IF descending /\ i <= run THEN run + 1 - i ELSE i]
         IN  BinarySort(lt, a, run + 1)

\* sorted(items), lt[i][j] answering "is items[i] < items[j]".
Sorted(items, lt) ==
    LET Place(order) == [i \in 1..Len(items) |-> items[order[i]]]
    IN  Place(SortedOrder(lt, Len(items)))

\* sorted(available): the candidates under ContentType.__lt__
sorted_available(available_) ==
    Sorted(available_,
           [i \in 1..Len(available_) |-> [j \in 1..Len(available_) |->
               ContentTypeLt(available_[i], available_[j])]])

(***************************************************************************)
(* ietfparse.headers.parse_content_type                                    *)
(***************************************************************************)

parse_content_type(content_type, normalize_parameter_values) ==
    LET Build(type_spec, parameters, sub) ==
            IF parameters.exc # "" THEN parameters
            ELSE IF Len(sub) = 1
            THEN Ok(ContentType(type_spec[1], type_spec[2],
                                DictOf(parameters.val), None))
            ELSE IF Len(sub) = 2
            THEN Ok(ContentType(type_spec[1], sub[1],
                                DictOf(parameters.val), sub[2]))
            ELSE Raise("ValueError")
        Typed(parts, type_spec) ==
            IF Len(type_spec) # 2
            THEN Raise("MalformedContentType")
            ELSE Build(type_spec,
                       _parse_parameter_list(Tail(parts), FALSE,
                                             normalize_parameter_values,
                                             FALSE),
                       split(type_spec[2], "+"))
        Parts(parts) == Typed(parts, split(Head(parts), "/"))
    IN  Parts(split(_remove_comments(content_type), ";"))

(***************************************************************************)
(* ietfparse.headers.parse_accept                                          *)
(***************************************************************************)

\* The first loop: parse_content_type on each element under the guard, which
\* is contextlib.suppress(ValueError) unless strict.
RECURSIVE parse_elements(_, _)
parse_elements(elements, strict_) ==
    LET Rest(one, rest) ==
            IF rest.exc # "" THEN rest
            ELSE Ok((IF one.exc = "" THEN <<one.val>> ELSE <<>>) \o rest.val)
        First(one) ==
            IF one.exc # "" /\ ~(IsValueError(one.exc) /\ ~strict_)
            THEN one
            ELSE Rest(one, parse_elements(Tail(elements), strict_))
    IN  IF elements = <<>> THEN Ok(<<>>)
        ELSE First(parse_content_type(Head(elements), TRUE))

\* A parse_accept without the synthetic quality: an explicit 1.0 is 1.0.
float_plain_one(k) == Float(FloatUnit)

\* float(next_explicit_q) after k calls of next_minus().  next_explicit_q
\* starts as ExtendedContext.next_plus(Decimal('5.0')), which is 5.00000001
\* (nine digits); next_minus() runs under the default context of 28 digits
\* and takes 10^-27 off, and the doubles around 5 lie 8.9 * 10^-16 apart:
\* float() gives 5.00000001 for every k a header can reach.
float_next_explicit_q(k) == Float(5 * FloatUnit + 1)

\* The second loop: the q parameter is popped and the quality set.
RECURSIVE set_qualities(_, _)
set_qualities(headers, k) ==
    IF headers = <<>> THEN Ok(<<>>)
    ELSE LET header == Head(headers)
             has_q == DictHas(header.parameters, <<"q">>)
             q == IF has_q THEN DictGet(header.parameters, <<"q">>) ELSE None
             explicit == has_q /\ q = <<"1", ".", "0">>
             Rest(quality, rest) ==
                 IF rest.exc # "" THEN rest
                 ELSE Ok(<<[header EXCEPT
                              !.parameters = DictDel(@, <<"q">>),
                              !.quality = quality.val]>> \o rest.val)
             Quality(quality) ==
                 IF quality.exc # "" THEN quality
                 ELSE Rest(quality,
                           set_qualities(Tail(headers),
                                         IF explicit THEN k + 1 ELSE k))
         IN  Quality(IF ~has_q THEN Ok(Float(FloatUnit))
                     ELSE IF explicit THEN Ok(float_next_explicit_q(k))
                     ELSE float(q))

\* parse_accept.ordering, a cmp function
ordering(left, right) ==
    IF FloatEq(left.quality, right.quality)
    THEN IF ContentTypeEq(left, right) THEN 0
         ELSE IF ContentTypeGt(left, right) THEN -1
         ELSE 1
    ELSE IF FloatGt(left.quality, right.quality) THEN -1
    ELSE 1

\* functools.cmp_to_key(ordering): K(a) < K(b) iff ordering(a, b) < 0
ordering_lt(left, right) == ordering(left, right) < 0

\* sorted(headers, key=functools.cmp_to_key(ordering))
sorted_headers(headers) ==
    Sorted(headers,
           [i \in 1..Len(headers) |-> [j \in 1..Len(headers) |->
               ordering_lt(headers[i], headers[j])]])

parse_accept(header_value_, strict_) ==
    LET Order(qualified) ==
            IF qualified.exc # "" THEN qualified
            ELSE Ok(sorted_headers(qualified.val))
        Qualify(headers) ==
            IF headers.exc # "" THEN headers
            ELSE Order(set_qualities(headers.val, 0))
        Elements(elements) ==
            IF elements.exc # "" THEN elements
            ELSE Qualify(parse_elements(elements.val, strict_))
    IN  Elements(parse_list(header_value_))

(***************************************************************************)
(* ietfparse.algorithms.select_content_type                                *)
(***************************************************************************)

_wildcard_compare(type_spec, type_pattern) ==
    type_pattern = <<"*">> \/ type_spec = type_pattern

\* A faulty _content_type_matches that never looks at the subtype.
_content_type_matches_by_type(candidate, pattern) ==
    _wildcard_compare(candidate.content_type, pattern.content_type)

\* Is candidate an exact match or sub-type of pattern?
_content_type_matches(candidate, pattern) ==
    /\ _wildcard_compare(candidate.content_type, pattern.content_type)
    /\ _wildcard_compare(candidate.content_subtype, pattern.content_subtype)

\* Match.WILDCARD, Match.PARTIAL, Match.FULL_TYPE
WILDCARD == 2
PARTIAL == 1
FULL_TYPE == 0

\* The loop of Match.__init__ over candidate.parameters.items(): what it
\* adds to parameter_distance.
RECURSIVE parameter_steps(_, _)
parameter_steps(items, pattern_parameters) ==
    IF items = <<>> THEN 0
    ELSE (IF DictHas(pattern_parameters, Head(items)[1])
          THEN IF DictGet(pattern_parameters, Head(items)[1]) = Head(items)[2]
               THEN -1 ELSE 1
          ELSE 0)
         + parameter_steps(Tail(items), pattern_parameters)

\* Match.__init__
Match(candidate, pattern) ==
    [candidate |-> candidate,
     pattern |-> pattern,
     match_type |->
         IF pattern.content_type = <<"*">> /\ pattern.content_subtype = <<"*">>
         THEN WILDCARD
         ELSE IF pattern.content_subtype = <<"*">> THEN PARTIAL
         ELSE FULL_TYPE,
     parameter_distance |->
         Len(candidate.parameters)
         + parameter_steps(candidate.parameters, pattern.parameters)]

extract_quality(obj) ==
    IF obj.quality = NoQuality THEN Float(FloatUnit) ELSE obj.quality

\* sorted(requested, key=extract_quality, ...): the keys' <
quality_lt(left, right) ==
    FloatLt(extract_quality(left), extract_quality(right))

\* sorted(requested, key=extract_quality, reverse=True): the list is
\* reversed, sorted, and reversed again, which keeps patterns of equal
\* quality in their given order.
sorted_requested(requested_) ==
    LET Ascending(reversed) ==
            Sorted(reversed,
                   [i \in 1..Len(reversed) |-> [j \in 1..Len(reversed) |->
                       quality_lt(reversed[i], reversed[j])]])
    IN  Reverse(Ascending(Reverse(requested_)))

\* A faulty key that leaves out parameter_distance.
match_lt_by_match_type(left, right) == left.match_type < right.match_type

\* sorted(matches, key=attrgetter('match_type', 'parameter_distance')): the
\* < of the key tuples
match_lt(left, right) ==
    \/ left.match_type < right.match_type
    \/ /\ left.match_type = right.match_type
       /\ left.parameter_distance < right.parameter_distance

sorted_matches(matches) ==
    Sorted(matches,
           [i \in 1..Len(matches) |-> [j \in 1..Len(matches) |->
               match_lt(matches[i], matches[j])]])

\* What follows the loops: no match raises, else the first of the sorted
\* matches is returned.
best_match(matches) ==
    LET First(ordered) == Ok(<<ordered[1].candidate, ordered[1].pattern>>)
    IN  IF matches = <<>> THEN Raise("NoMatch")
        ELSE First(sorted_matches(matches))

\* The two nested loops from the i-th pattern and the j-th candidate on,
\* with the matches appended so far.
RECURSIVE scan(_, _, _, _, _)
scan(patterns, candidates, i, j, matches) ==
    IF i > Len(patterns) THEN best_match(matches)
    ELSE IF j > Len(candidates)
    THEN scan(patterns, candidates, i + 1, 1, matches)
    ELSE IF ~_content_type_matches(candidates[j], patterns[i])
    THEN scan(patterns, candidates, i, j + 1, matches)
    ELSE IF ContentTypeEq(candidates[j], patterns[i])
    THEN IF FloatEq(extract_quality(patterns[i]), Float(0))
         THEN Raise("NoMatch")
         ELSE Ok(<<candidates[j], patterns[i]>>)
    ELSE scan(patterns, candidates, i, j + 1,
              Append(matches, Match(candidates[j], patterns[i])))

select_content_type(requested_, available_) ==
    scan(sorted_requested(requested_), sorted_available(available_),
         1, 1, <<>>)

\* select_content_type with the default keyword, which the tests call and
\* the specification describes: a default that is no member of available is
\* an invalid argument, and when no candidate matches any pattern the
\* default is returned paired with itself.
\* default=None as a value that can stand where a ContentType is expected
NoDefault ==
    [content_type |-> None, content_subtype |-> None, content_suffix |-> None,
     parameters |-> <<>>, quality |-> NoQuality]

select_content_type_default(requested_, available_, default_) ==
    LET NoCandidateMatches ==
            \A i \in 1..Len(requested_), j \in 1..Len(available_) :
                ~_content_type_matches(available_[j], requested_[i])
        Outcome(r) ==
            IF r.exc = "NoMatch" /\ default_ # NoDefault /\ NoCandidateMatches
            THEN Ok(<<default_, default_>>)
            ELSE r
    IN  IF /\ default_ # NoDefault
           /\ \A j \in 1..Len(available_) :
                  ~ContentTypeEq(available_[j], default_)
        THEN Raise("ValueError")
        ELSE Outcome(select_content_type(requested_, available_))

(***************************************************************************)
(* ietfparse._helpers.ParameterParser                                      *)
(***************************************************************************)

rel == <<"r", "e", "l">>
media == <<"m", "e", "d", "i", "a">>
type == <<"t", "y", "p", "e">>
title == <<"t", "i", "t", "l", "e">>
title_star == <<"t", "i", "t", "l", "e", "*">>

\* ParameterParser.__init__: self._rfc_values
rfc_values_init ==
    <<<<rel, None>>, <<media, None>>, <<type, None>>, <<title, None>>,
      <<title_star, None>> >>

\* A faulty add_value that drops nothing in strict mode.
add_value_keeping_all(self, name, value) ==
    [self EXCEPT !._rfc_values =
                     IF DictHas(@, name) /\ DictGet(@, name) = None
                     THEN DictSet(@, name, value) ELSE @,
                 !._values = Append(@, <<name, value>>)]

\* ParameterParser.add_value: the parser's (_values, _rfc_values) after the
\* call.  The KeyError of a name outside _rfc_values is caught and passed.
add_value(self, name, value) ==
    LET known == DictHas(self._rfc_values, name)
        first == known /\ DictGet(self._rfc_values, name) = None
        rfc == IF first
               THEN DictSet(self._rfc_values, name, value)
               ELSE self._rfc_values
    IN  IF known /\ ~first /\ self.strict
        THEN self
        ELSE IF self.strict /\ name \in {title, title_star}
        THEN [self EXCEPT !._rfc_values = rfc]
        ELSE [self EXCEPT !._rfc_values = rfc,
                          !._values = Append(@, <<name, value>>)]

\* A faulty values that emits the title with its own value next to title*.
values_with_own_title(self) ==
    IF ~self.strict THEN self._values
    ELSE self._values
         \o (IF DictGet(self._rfc_values, title_star) # None
             THEN <<<<title_star, DictGet(self._rfc_values, title_star)>>>>
             ELSE <<>>)
         \o (IF DictGet(self._rfc_values, title) # None
             THEN <<<<title, DictGet(self._rfc_values, title)>>>>
             ELSE <<>>)

\* ParameterParser.values
values(self) ==
    LET preferred_title == DictGet(self._rfc_values, title_star)
        fallback_title == DictGet(self._rfc_values, title)
    IN  IF ~self.strict THEN self._values
        ELSE IF preferred_title # None
        THEN self._values \o <<<<title_star, preferred_title>>>>
             \o (IF fallback_title # None
                 THEN <<<<title, preferred_title>>>>
                 ELSE <<>>)
        ELSE IF fallback_title # None
        THEN self._values \o <<<<title, fallback_title>>>>
        ELSE self._values

(***************************************************************************)
(* ietfparse.datastructures.LinkHeader                                     *)
(***************************************************************************)

\* param_dict[name].append(value) on a defaultdict(list)
DictAppend(d, k, v) ==
    IF DictHas(d, k) THEN DictSet(d, k, Append(DictGet(d, k), v))
    ELSE Append(d, <<k, <<v>> >>)

\* LinkHeader.__init__: the values are grouped under their names, the names
\* in the order in which each was first seen.
RECURSIVE LinkHeader(_, _)
LinkHeader(target, parameters) ==
    LET n == Len(parameters)
        Grouped(shorter) ==
            [shorter EXCEPT !._params =
                 DictAppend(@, parameters[n][1], parameters[n][2])]
    IN  IF parameters = <<>> THEN [_target |-> target, _params |-> <<>>]
        ELSE Grouped(LinkHeader(target, SubSeq(parameters, 1, n - 1)))

\* LinkHeader.parameters: (item, value) for item, values in
\* self._params.items() for value in values
RECURSIVE LinkHeader_parameters(_)
LinkHeader_parameters(_params) ==
    IF _params = <<>> THEN <<>>
    ELSE [i \in 1..Len(_params[1][2]) |-> <<_params[1][1], _params[1][2][i]>>]
         \o LinkHeader_parameters(Tail(_params))

\* LinkHeader.rel: ' '.join(self._params.get('rel', [])).strip()
LinkHeader_rel(self) ==
    IF DictHas(self._params, <<"r", "e", "l">>)
    THEN strip(join(<<" ">>, DictGet(self._params, <<"r", "e", "l">>)))
    ELSE <<>>

\* LinkHeader.__str__: the target, rel when it is not empty, and the sorted
\* name="value" texts of the other parameters, joined by "; ".
LinkHeader__str__(self) ==
    LET Quoted(name, value) == name \o <<"=", Quote>> \o value \o <<Quote>>
        Others(pairs) ==
            [i \in 1..Len(pairs) |-> Quoted(pairs[i][1], pairs[i][2])]
        Ascending(texts) ==
            Sorted(texts, [i \in 1..Len(texts) |-> [j \in 1..Len(texts) |->
                              StrLt(texts[i], texts[j])]])
    IN  join(<<";", " ">>,
             << <<"<">> \o self._target \o <<">">> >>
             \o (IF LinkHeader_rel(self) # <<>>
                 THEN << Quoted(<<"r", "e", "l">>, LinkHeader_rel(self)) >>
                 ELSE <<>>)
             \o Ascending(Others(SelectSeq(
                    LinkHeader_parameters(self._params),
                    LAMBDA nv : nv[1] # <<"r", "e", "l">>))))

(***************************************************************************)
(* ietfparse.headers.parse_link                                            *)
(***************************************************************************)

\* The sentinel that parse_links puts in place of a quoted semicolon.
SOH == "\\001"

\* The loop of parse_links over the quoted segments: the first occurrence of
\* each segment's text in buf has its commas and semicolons replaced.
RECURSIVE protect_separators(_, _)
protect_separators(buf, quoted) ==
    LET Cut(p) ==
            IF p.exc # "" THEN p
            ELSE protect_separators(
                     p.val[1]
                         \o replace(replace(p.val[2], ",", NUL), ";", SOH)
                         \o p.val[3],
                     Tail(quoted))
    IN  IF quoted = <<>> THEN Ok(buf)
        ELSE Cut(partition(buf, Head(quoted)))

\* re.match(r'<(?P<link>[^>]*)>\s*(?P<params>.*)', buf): None, or the groups
\* link and params.
match_link(buf) ==
    LET NoMatch == [matched |-> FALSE, link |-> <<>>, params |-> <<>>]
        Groups(close) ==
            IF close = 0 THEN NoMatch
            ELSE [matched |-> TRUE,
                  link |-> SubSeq(buf, 2, close - 1),
                  params |-> lstrip(SubSeq(buf, close + 1, Len(buf)))]
    IN  IF buf = <<>> \/ buf[1] # "<" THEN NoMatch
        ELSE Groups(find(buf, <<">">>, 2))

\* [p.replace('\001', ';').strip() for p in params[1:].split(';') if p]
link_param_list(params) ==
    LET Each(pieces) ==
            [i \in 1..Len(pieces) |-> strip(replace(pieces[i], SOH, ";"))]
    IN  Each(SelectSeq(split(SubSeq(params, 2, Len(params)), ";"),
                       LAMBDA p : p # <<>>))

\* parser.add_value(name, value) for each pair, in order
RECURSIVE add_values(_, _)
add_values(self, pairs) ==
    IF pairs = <<>> THEN self
    ELSE add_values(add_value(self, Head(pairs)[1], Head(pairs)[2]),
                    Tail(pairs))

\* The body of the for loop of parse_link for one yielded (target,
\* param_list): the LinkHeader, or what _parse_parameter_list raised.
parse_one_link(target, param_list, strict_) ==
    LET Built(pairs) ==
            IF pairs.exc # "" THEN pairs
            ELSE Ok(LinkHeader(
                     target,
                     values(add_values([strict |-> strict_, _values |-> <<>>,
                                        _rfc_values |-> rfc_values_init],
                                       pairs.val))))
    IN  Built(_parse_parameter_list(param_list, FALSE, TRUE, TRUE))

\* The while loop of parse_links together with the for loop that consumes
\* the generator: each link is built before the text after it is looked at.
RECURSIVE link_loop(_, _)
link_loop(buf, strict_) ==
    LET Rest(one, rest) ==
            IF rest.exc # "" THEN rest ELSE Ok(<<one.val>> \o rest.val)
        Yield(one, after) ==
            IF one.exc # "" THEN one
            ELSE Rest(one, link_loop(strip(after), strict_))
        Params(link, params, after) ==
            IF params # <<>> /\ params[1] # ";"
            THEN Raise("MalformedLinkValue")
            ELSE Yield(parse_one_link(strip(link), link_param_list(params),
                                      strict_),
                       after)
        Cut(link, p) == Params(link, replace(p[1], NUL, ","), p[3])
        Matched(groups) ==
            IF ~groups.matched THEN Raise("MalformedLinkValue")
            ELSE Cut(groups.link, partition(groups.params, <<",">>).val)
    IN  IF buf = <<>> THEN Ok(<<>>) ELSE Matched(match_link(buf))

parse_link(header_value_, strict_) ==
    LET Links(buf) ==
            IF buf.exc # "" THEN buf ELSE link_loop(buf.val, strict_)
        Sanitized(sanitized) ==
            Links(protect_separators(sanitized, findall_quoted(sanitized)))
    IN  Sanitized(_remove_comments(header_value_))

(***************************************************************************)
(* ietfparse.headers._parse_qualified_list                                 *)
(***************************************************************************)

_SMALLEST_QUALITY == Float(FloatUnit \div 1000)

\* (quality, charset) < (quality, charset) for tuples: the first components
\* decide unless they compare equal.
qualified_lt(left, right) ==
    IF FloatEq(left[1], right[1]) THEN StrLt(left[2], right[2])
    ELSE FloatLt(left[1], right[1])

\* sorted(values, reverse=True)
sorted_values(values_) ==
    LET Ascending(reversed) ==
            Sorted(reversed,
                   [i \in 1..Len(reversed) |-> [j \in 1..Len(reversed) |->
                       qualified_lt(reversed[i], reversed[j])]])
    IN  Reverse(Ascending(Reverse(values_)))

\* A faulty threshold: every quality below 1.0 is rejected.
quality_rejected_below_one(quality) == FloatLt(quality, Float(FloatUnit))

\* quality < _SMALLEST_QUALITY
quality_rejected(quality) == FloatLt(quality, _SMALLEST_QUALITY)

\* float(params.pop('q', default)) for a token without q
implicit_quality(default_) == Float(default_ * FloatUnit)

\* The for loop of _parse_qualified_list from raw_str = Head(parsed) on;
\* default_ and highest count whole numbers.
RECURSIVE qualified_loop(_, _, _, _)
qualified_loop(parsed, default_, highest, so_far) ==
    LET Ranked(charset, actual_param, quality) ==
            IF quality.exc # "" THEN quality
            ELSE qualified_loop(
                     Tail(parsed), default_ - 1, highest,
                     IF quality_rejected(quality.val)
                     THEN [so_far EXCEPT !.rejected_values =
                                             Append(@, charset)]
                     ELSE IF actual_param = <<"1", ".", "0">>
                     THEN [so_far EXCEPT !.values =
                              Append(@, <<Float((highest + default_)
                                                * FloatUnit), charset>>)]
                     ELSE [so_far EXCEPT !.values =
                                             Append(@, <<quality.val,
                                                         charset>>)])
        Params(charset, params) ==
            IF DictHas(params, <<"q">>)
            THEN Ranked(charset, DictGet(params, <<"q">>),
                        float(DictGet(params, <<"q">>)))
            ELSE Ranked(charset, None, Ok(implicit_quality(default_)))
        Parsed(charset, pairs) ==
            IF pairs.exc # "" THEN pairs
            ELSE Params(charset, DictOf(pairs.val))
        Token(p) ==
            IF p[1] = <<"*">>
            THEN qualified_loop(Tail(parsed), default_, highest,
                                [so_far EXCEPT !.found_wildcard = TRUE])
            ELSE Parsed(p[1], _parse_parameter_list(split(p[3], ";"),
                                                    FALSE, TRUE, FALSE))
    IN  IF parsed = <<>> THEN Ok(so_far)
        ELSE Token(partition(SelectSeq(Head(parsed), LAMBDA c : c # " "),
                             <<";">>).val)

_parse_qualified_list(value) ==
    LET Result(sorted) ==
            [i \in 1..Len(sorted) |-> sorted[i][2]]
        Out(found) ==
            IF found.exc # "" THEN found
            ELSE Ok(Result(sorted_values(found.val.values))
                    \o (IF found.val.found_wildcard THEN <<<<"*">>>> ELSE <<>>)
                    \o found.val.rejected_values)
        Loop(parsed) ==
            IF parsed.exc # "" THEN parsed
            ELSE Out(qualified_loop(parsed.val, Len(parsed.val) + 1,
                                    Len(parsed.val) + 2,
                                    [found_wildcard |-> FALSE,
                                     values |-> <<>>,
                                     rejected_values |-> <<>>]))
    IN  Loop(parse_list(value))

parse_accept_charset(header_value_) == _parse_qualified_list(header_value_)
parse_accept_encoding(header_value_) == _parse_qualified_list(header_value_)
parse_accept_language(header_value_) == _parse_qualified_list(header_value_)

(***************************************************************************)
(* ietfparse.headers.parse_cache_control                                   *)
(***************************************************************************)

_CACHE_CONTROL_BOOL_DIRECTIVES ==
    << <<"m", "u", "s", "t", "-", "r", "e", "v", "a", "l", "i", "d", "a",
         "t", "e">>,
       <<"n", "o", "-", "c", "a", "c", "h", "e">>,
       <<"n", "o", "-", "s", "t", "o", "r", "e">>,
       <<"n", "o", "-", "t", "r", "a", "n", "s", "f", "o", "r", "m">>,
       <<"o", "n", "l", "y", "-", "i", "f", "-", "c", "a", "c", "h", "e", "d">>,
       <<"p", "u", "b", "l", "i", "c">>,
       <<"p", "r", "i", "v", "a", "t", "e">>,
       <<"p", "r", "o", "x", "y", "-", "r", "e", "v", "a", "l", "i", "d", "a",
         "t", "e">> >>

\* The values of a directive: None, True, an int and a str.
DirectiveNone == [kind |-> "None", n |-> 0, s |-> <<>>]
DirectiveTrue == [kind |-> "True", n |-> 0, s |-> <<>>]
DirectiveInt(n) == [kind |-> "int", n |-> n, s |-> <<>>]
DirectiveStr(s) == [kind |-> "str", n |-> 0, s |-> s]

\* try: int(value) except ValueError: value -- for the spellings without
\* sign and underscore
int_or_str(value) ==
    IF value # <<>> /\ AllDigits(value) THEN DirectiveInt(IntVal(value))
    ELSE DirectiveStr(value)

\* The first loop of parse_cache_control from segment = Head(segments) on.
RECURSIVE directive_loop(_, _)
directive_loop(segments, directives) ==
    LET Valued(name, value) ==
            IF value.exc # "" THEN value
            ELSE directive_loop(Tail(segments),
                                DictSet(directives, name,
                                        int_or_str(value.val)))
        Segment(p) ==
            IF p[2] # <<"=">>
            THEN directive_loop(Tail(segments),
                                DictSet(directives, p[1], DirectiveNone))
            ELSE IF p[3] # <<>>
            THEN Valued(p[1], _dequote(strip(p[3])))
            ELSE directive_loop(Tail(segments), directives)
    IN  IF segments = <<>> THEN Ok(directives)
        ELSE Segment(partition(Head(segments), <<"=">>).val)

\* A faulty conversion that makes every directive without a value True.
bool_directives_any_name(directives) ==
    [i \in 1..Len(directives) |->
        IF directives[i][2] = DirectiveNone
        THEN <<directives[i][1], DirectiveTrue>>
        ELSE directives[i]]

\* The second loop: a directive of the vocabulary that is None becomes True.
bool_directives(directives) ==
    [i \in 1..Len(directives) |->
        IF /\ directives[i][1] \in Range(_CACHE_CONTROL_BOOL_DIRECTIVES)
           /\ directives[i][2] = DirectiveNone
        THEN <<directives[i][1], DirectiveTrue>>
        ELSE directives[i]]

parse_cache_control(header_value_) ==
    LET Converted(directives) ==
            IF directives.exc # "" THEN directives
            ELSE Ok(bool_directives(directives.val))
        Segments(segments) ==
            IF segments.exc # "" THEN segments
            ELSE Converted(directive_loop(segments.val, <<>>))
    IN  Segments(parse_list(header_value_))

(***************************************************************************)
(* ietfparse.headers.parse_forwarded                                       *)
(***************************************************************************)

StandardParameters ==
    { <<"f", "o", "r">>, <<"p", "r", "o", "t", "o">>, <<"b", "y">>,
      <<"h", "o", "s", "t">> }

\* for name, _ in param_tuples: name in ('for', 'proto', 'by', 'host')
standard_names(param_tuples) ==
    \A nv \in Range(param_tuples) : nv[1] \in StandardParameters

\* The for loop of parse_forwarded from entry = Head(entries) on.
RECURSIVE forwarded_loop(_, _, _, _)
forwarded_loop(header_value_, entries, only_standard_parameters, result) ==
    LET Entry(param_tuples) ==
            IF param_tuples.exc # "" THEN param_tuples
            ELSE IF /\ only_standard_parameters
                    /\ ~standard_names(param_tuples.val)
            THEN RaiseWith("StrictHeaderParsingFailure",
                           <<"F", "o", "r", "w", "a", "r", "d", "e", "d">>,
                           header_value_)
            ELSE forwarded_loop(header_value_, Tail(entries),
                                only_standard_parameters,
                                Append(result, DictOf(param_tuples.val)))
    IN  IF entries = <<>> THEN Ok(result)
        ELSE Entry(_parse_parameter_list(split(Head(entries), ";"),
                                         TRUE, FALSE, FALSE))

parse_forwarded(header_value_, only_standard_parameters) ==
    LET Entries(entries) ==
            IF entries.exc # "" THEN entries
            ELSE forwarded_loop(header_value_, entries.val,
                                only_standard_parameters, <<>>)
    IN  Entries(parse_list(header_value_))

(***************************************************************************)
(* ietfparse.datastructures.ContentType.__str__                            *)
(***************************************************************************)

\* sorted(self.parameters): the names in str order
sorted_names(parameters) ==
    LET Names(names) ==
            Sorted(names, [i \in 1..Len(names) |-> [j \in 1..Len(names) |->
                              StrLt(names[i], names[j])]])
    IN  Names([i \in 1..Len(parameters) |-> parameters[i][1]])

ContentType__str__(self) ==
    LET Param(name) == name \o <<"=">> \o DictGet(self.parameters, name)
        Params(names) ==
            <<";", " ">>
            \o join(<<";", " ">>, [i \in 1..Len(names) |-> Param(names[i])])
    IN  self.content_type \o <<"/">> \o self.content_subtype
        \o (IF self.content_suffix # None /\ self.content_suffix # <<>>
            THEN <<"+">> \o self.content_suffix ELSE <<>>)
        \o (IF self.parameters # <<>>
            THEN Params(sorted_names(self.parameters)) ELSE <<>>)

(***************************************************************************)
(* The inputs                                                              *)
(***************************************************************************)

\* The most elements in an Accept header
MaxElements == 3
\* The most parameters given to one ParameterParser
MaxParams == 3

RECURSIVE SeqsUpTo(_, _)
SeqsUpTo(S, n) ==
    IF n = 0 THEN {<<>>}
    ELSE LET shorter == SeqsUpTo(S, n - 1)
         IN  shorter \cup {Append(q, x) : q \in shorter, x \in S}

\* Elements of an Accept header: media ranges without q, with q spelled
\* 1.0 (bare and quoted) and 1, with lesser and non-numeric q, with and
\* without other parameters, and text that is no media range.
AcceptElements ==
    { <<"a", "/", "b">>,
      <<"a", "/", "b", ";", "q", "=", "1", ".", "0">>,
      <<"c", "/", "d", ";", "q", "=", Quote, "1", ".", "0", Quote>>,
      <<"*", "/", "*", ";", "q", "=", "1">>,
      <<"b", "/", "*">>,
      <<"a", "/", "b", ";", "Q", "=", "0", ".", "5">>,
      <<"c", "/", "d", ";", "q", "=", "n", "a", "n">>,
      <<"a", "/", "b", ";", "x", "=", "1">>,
      <<"a", "/", "b", ";", "x", "=">>,
      <<"a", "/", "b", ";", "q", "=", "a", "b", "c">>,
      <<"*">> }

AcceptHeaders ==
    {join(<<",", " ">>, es) : es \in SeqsUpTo(AcceptElements, MaxElements)}

\* The most patterns in requested and candidates in available
MaxRequested == 2
MaxAvailable == 2

\* A ContentType as parse_content_type builds it from text, with a quality.
MediaRange(text, quality) ==
    [parse_content_type(text, TRUE).val EXCEPT !.quality = quality]

Qualities == {NoQuality, Float(0), Float(FloatUnit \div 2)}

Patterns ==
    {MediaRange(text, quality) :
        text \in { <<"a", "/", "b">>,
                   <<"a", "/", "b", ";", "x", "=", "1">>,
                   <<"a", "/", "*">> },
        quality \in Qualities}
    \cup {MediaRange(<<"*", "/", "*">>, Float(FloatUnit \div 2))}

Candidates ==
    {MediaRange(text, NoQuality) :
        text \in { <<"a", "/", "b">>,
                   <<"a", "/", "b", ";", "x", "=", "1">>,
                   <<"a", "/", "b", ";", "x", "=", "2">>,
                   <<"a", "/", "d">>,
                   <<"c", "/", "d">> }}

Defaults == {NoDefault, MediaRange(<<"a", "/", "d">>, NoQuality)}

ParamNames == {rel, media, type, title, title_star, <<"x">>}
ParamValues == {<<"1">>, <<"2">>}

\* The texts of a family of inputs.
Texts(family) == {family[name] : name \in DOMAIN family}

\* Link values: with repeated and interleaved names, with a quoted comma and
\* a quoted semicolon, with the quoted text also in the target, with an empty
\* quoted value, and text without a target, without the semicolon, and with a
\* parameter without "=", with two "=", without a value or with a quote that
\* is not closed, and one followed by a comment.
LinkText ==
    [ bare |->
          \* <a>
          <<"<", "a", ">">>,
      interleaved |->
          \* <a>; a=1; b=2; a=3
          <<"<", "a", ">", ";", " ", "a", "=", "1", ";", " ", "b", "=", "2", ";",
           " ", "a", "=", "3">>,
      two_rel |->
          \* <a>; rel=1; rel=2
          <<"<", "a", ">", ";", " ", "r", "e", "l", "=", "1", ";", " ", "r", "e",
           "l", "=", "2">>,
      quoted_comma |->
          \* <a>; x="1,2"
          <<"<", "a", ">", ";", " ", "x", "=", Quote, "1", ",", "2", Quote>>,
      quoted_semicolon |->
          \* <a>; x="1;2"
          <<"<", "a", ">", ";", " ", "x", "=", Quote, "1", ";", "2", Quote>>,
      target_as_quoted |->
          \* <1,2>; x="1,2"
          <<"<", "1", ",", "2", ">", ";", " ", "x", "=", Quote, "1", ",", "2",
           Quote>>,
      no_semicolon |->
          \* <a> x=1
          <<"<", "a", ">", " ", "x", "=", "1">>,
      no_target |->
          \* a
          <<"a">>,
      empty_quoted |->
          \* <a>; x=""
          <<"<", "a", ">", ";", " ", "x", "=", Quote, Quote>>,
      no_equals |->
          \* <a>; x
          <<"<", "a", ">", ";", " ", "x">>,
      titles |->
          \* <a>; title=1; title*=2
          <<"<", "a", ">", ";", " ", "t", "i", "t", "l", "e", "=", "1", ";", " ",
           "t", "i", "t", "l", "e", "*", "=", "2">>,
      unclosed_quote |->
          \* <a>; x="
          <<"<", "a", ">", ";", " ", "x", "=", Quote>>,
      two_equals |->
          \* <a>; x=1=2
          <<"<", "a", ">", ";", " ", "x", "=", "1", "=", "2">>,
      empty_value |->
          \* <a>; x=
          <<"<", "a", ">", ";", " ", "x", "=">>,
      commented |->
          \* <a> (c)
          <<"<", "a", ">", " ", "(", "c", ")">> ]

\* Pieces of a comma-separated list: bare, quoted with and without a comma,
\* the same text unquoted, padded, an empty quoted string and an empty piece.
ListText ==
    [ a |->
          \* a
          <<"a">>,
      b_c |->
          \* b,c
          <<"b", ",", "c">>,
      quoted_b_c |->
          \* "b,c"
          <<Quote, "b", ",", "c", Quote>>,
      quoted_a |->
          \* "a"
          <<Quote, "a", Quote>>,
      padded_d |->
          \* ' d '
          <<" ", "d", " ">>,
      empty_quoted |->
          \* ""
          <<Quote, Quote>>,
      empty |->
          \* '' (nothing before or after a comma)
          <<>> ]

\* Tokens of an Accept-Charset, Accept-Encoding or Accept-Language header:
\* without q, the wildcard, with q spelled 1.0 and 1, with lesser qualities,
\* rejected, and with a q that is nan or no number.
QualifiedText ==
    [ a |->
          \* a
          <<"a">>,
      b |->
          \* b
          <<"b">>,
      wildcard |->
          \* *
          <<"*">>,
      a_q_1_0 |->
          \* a;q=1.0
          <<"a", ";", "q", "=", "1", ".", "0">>,
      b_q_1 |->
          \* b;q=1
          <<"b", ";", "q", "=", "1">>,
      c_q_0_5 |->
          \* c;q=0.5
          <<"c", ";", "q", "=", "0", ".", "5">>,
      d_q_0_1 |->
          \* d;q=0.1
          <<"d", ";", "q", "=", "0", ".", "1">>,
      d_q_0 |->
          \* d;q=0
          <<"d", ";", "q", "=", "0">>,
      c_q_nan |->
          \* c;q=nan
          <<"c", ";", "q", "=", "n", "a", "n">>,
      a_q_abc |->
          \* a;q=abc
          <<"a", ";", "q", "=", "a", "b", "c">> ]

\* Cache-Control directives in and out of the boolean vocabulary: bare, with
\* a number, with text, and with "=" and nothing after it.
CacheText ==
    [ public |->
          \* public
          <<"p", "u", "b", "l", "i", "c">>,
      public_5 |->
          \* public=5
          <<"p", "u", "b", "l", "i", "c", "=", "5">>,
      public_empty |->
          \* public=
          <<"p", "u", "b", "l", "i", "c", "=">>,
      public_x |->
          \* public=x
          <<"p", "u", "b", "l", "i", "c", "=", "x">>,
      a |->
          \* a
          <<"a">>,
      a_empty |->
          \* a=
          <<"a", "=">>,
      a_1 |->
          \* a=1
          <<"a", "=", "1">>,
      no_cache |->
          \* no-cache
          <<"n", "o", "-", "c", "a", "c", "h", "e">> ]

\* Forwarded entries: standard names in either case, other names, and an
\* entry that is no parameter list.
ForwardedText ==
    [ for |->
          \* for=1
          <<"f", "o", "r", "=", "1">>,
      For_by |->
          \* For=1;by=2
          <<"F", "o", "r", "=", "1", ";", "b", "y", "=", "2">>,
      x |->
          \* x=1
          <<"x", "=", "1">>,
      FOR_X |->
          \* FOR=a;X=1
          <<"F", "O", "R", "=", "a", ";", "X", "=", "1">>,
      no_equals |->
          \* a
          <<"a">>,
      host_proto |->
          \* host=A;proto=b
          <<"h", "o", "s", "t", "=", "A", ";", "p", "r", "o", "t", "o", "=", "b">> ]

\* The type/subtype part of a Content-Type: upper case, padded, with one,
\* several and an empty suffix, and without a "/".
TypeText ==
    [ a_b |->
          \* a/b
          <<"a", "/", "b">>,
      upper |->
          \* A/B
          <<"A", "/", "B">>,
      padded |->
          \* ' a / b '
          <<" ", "a", " ", "/", " ", "b", " ">>,
      suffix |->
          \* a/b+c
          <<"a", "/", "b", "+", "c">>,
      upper_suffix |->
          \* a/B+C
          <<"a", "/", "B", "+", "C">>,
      two_plus |->
          \* a/b+c+d
          <<"a", "/", "b", "+", "c", "+", "d">>,
      empty_suffix |->
          \* a/b+
          <<"a", "/", "b", "+">>,
      no_slash |->
          \* a
          <<"a">> ]

\* The parameter part of a Content-Type: none, padded around the "=", quoted
\* with a leading blank, upper case, two parameters, one without "=", and
\* one after a comment, alone and followed by a second comment.
ParameterText ==
    [ none |->
          \* ''
          <<>>,
      x |->
          \* ; x=1
          <<";", " ", "x", "=", "1">>,
      padded_equals |->
          \* ; X = 1
          <<";", " ", "X", " ", "=", " ", "1">>,
      quoted_blank |->
          \* ;x=" 1"
          <<";", "x", "=", Quote, " ", "1", Quote>>,
      quoted_upper |->
          \* ; x="A"
          <<";", " ", "x", "=", Quote, "A", Quote>>,
      y_x |->
          \* ; y=2; x=1
          <<";", " ", "y", "=", "2", ";", " ", "x", "=", "1">>,
      no_equals |->
          \* ;x
          <<";", "x">>,
      upper_value |->
          \* ;y=B
          <<";", "y", "=", "B">>,
      comment_first |->
          \* ' (c); x=1'
          <<" ", "(", "c", ")", ";", " ", "x", "=", "1">>,
      two_comments |->
          \* ' (c); x=1 (d)'
          <<" ", "(", "c", ")", ";", " ", "x", "=", "1", " ", "(", "d", ")">> ]

(***************************************************************************)
(* The state machine: a caller makes one library call, or builds a         *)
(* ParameterParser, feeds it parameters and reads its values.              *)
(***************************************************************************)

NotCalled == [exc |-> "<not called>", val |-> <<>>]

parser == [strict |-> pp_strict, _values |-> _values,
           _rfc_values |-> _rfc_values]

Init ==
    /\ pc = "idle"
    /\ header_value = <<>>
    /\ strict = FALSE
    /\ accepted = NotCalled
    /\ requested = <<>>
    /\ available = <<>>
    /\ default = NoDefault
    /\ selected = NotCalled
    /\ pp_strict = FALSE
    /\ _values = <<>>
    /\ _rfc_values = <<>>
    /\ fed = <<>>
    /\ emitted = None
    /\ written = <<>>
    /\ argument = <<>>
    /\ flag = FALSE
    /\ returned = NotCalled
    /\ reparsed = NotCalled
    /\ subject = None
    /\ raised = ""

ParseAccept ==
    /\ pc = "idle"
    /\ \E h \in AcceptHeaders, s \in BOOLEAN :
          /\ header_value' = h
          /\ strict' = s
          /\ accepted' = parse_accept(h, s)
    /\ pc' = "parse_accept"
    /\ UNCHANGED <<selectVars, parserVars, callVars>>

SelectContentType ==
    /\ pc = "idle"
    /\ \E r \in SeqsUpTo(Patterns, MaxRequested),
          a \in SeqsUpTo(Candidates, MaxAvailable), d \in Defaults :
          /\ requested' = r
          /\ available' = a
          /\ default' = d
          /\ selected' = select_content_type_default(r, a, d)
    /\ pc' = "select_content_type"
    /\ UNCHANGED <<acceptVars, parserVars, callVars>>

\* ParameterParser(strict=...)
NewParameterParser ==
    /\ pc = "idle"
    /\ pp_strict' \in BOOLEAN
    /\ _values' = <<>>
    /\ _rfc_values' = rfc_values_init
    /\ pc' = "parser"
    /\ UNCHANGED <<fed, emitted, acceptVars, selectVars, callVars>>

AddValue ==
    /\ pc = "parser"
    /\ Len(fed) < MaxParams
    /\ \E name \in ParamNames, value \in ParamValues :
          LET after == add_value(parser, name, value)
          IN  /\ _values' = after._values
              /\ _rfc_values' = after._rfc_values
              /\ fed' = Append(fed, <<name, value>>)
    /\ UNCHANGED <<pc, pp_strict, emitted, acceptVars, selectVars, callVars>>

\* parse_link reads parser.values once, after the last add_value.
ReadValues ==
    /\ pc = "parser"
    /\ emitted' = values(parser)
    /\ pc' = "values_read"
    /\ UNCHANGED <<pp_strict, _values, _rfc_values, fed, acceptVars,
                   selectVars, callVars>>

\* parse_link(header_value, strict=...) on links joined by ", "
ParseLink ==
    /\ pc = "idle"
    /\ \E es \in SeqsUpTo(Texts(LinkText), MaxElements), s \in BOOLEAN :
          /\ written' = es
          /\ argument' = join(<<",", " ">>, es)
          /\ flag' = s
          /\ returned' = parse_link(join(<<",", " ">>, es), s)
    /\ pc' = "parse_link"
    /\ UNCHANGED <<reparsed, subject, raised, acceptVars, selectVars, parserVars>>

ParseList ==
    /\ pc = "idle"
    /\ \E es \in SeqsUpTo(Texts(ListText), MaxElements) :
          /\ written' = es
          /\ argument' = join(<<",", " ">>, es)
          /\ returned' = parse_list(join(<<",", " ">>, es))
    /\ pc' = "parse_list"
    /\ UNCHANGED <<flag, reparsed, subject, raised, acceptVars, selectVars, parserVars>>

\* The three parsers that return _parse_qualified_list(header_value)
ParseQualifiedList ==
    /\ pc = "idle"
    /\ \E es \in SeqsUpTo(Texts(QualifiedText), MaxElements) :
          /\ written' = es
          /\ argument' = join(<<",", " ">>, es)
          /\ \/ /\ pc' = "parse_accept_charset"
                /\ returned' = parse_accept_charset(join(<<",", " ">>, es))
             \/ /\ pc' = "parse_accept_encoding"
                /\ returned' = parse_accept_encoding(join(<<",", " ">>, es))
             \/ /\ pc' = "parse_accept_language"
                /\ returned' = parse_accept_language(join(<<",", " ">>, es))
    /\ UNCHANGED <<flag, reparsed, subject, raised, acceptVars, selectVars, parserVars>>

ParseCacheControl ==
    /\ pc = "idle"
    /\ \E es \in SeqsUpTo(Texts(CacheText), MaxElements) :
          /\ written' = es
          /\ argument' = join(<<",", " ">>, es)
          /\ returned' = parse_cache_control(join(<<",", " ">>, es))
    /\ pc' = "parse_cache_control"
    /\ UNCHANGED <<flag, reparsed, subject, raised, acceptVars, selectVars, parserVars>>

\* parse_forwarded(header_value, only_standard_parameters=...)
ParseForwarded ==
    /\ pc = "idle"
    /\ \E es \in SeqsUpTo(Texts(ForwardedText), MaxElements), s \in BOOLEAN :
          /\ written' = es
          /\ argument' = join(<<",", " ">>, es)
          /\ flag' = s
          /\ returned' = parse_forwarded(join(<<",", " ">>, es), s)
    /\ pc' = "parse_forwarded"
    /\ UNCHANGED <<reparsed, subject, raised, acceptVars, selectVars, parserVars>>

\* parse_content_type(content_type, normalize_parameter_values=...)
ParseContentType ==
    /\ pc = "idle"
    /\ \E type_spec \in Texts(TypeText), parameters \in Texts(ParameterText),
          s \in BOOLEAN :
          /\ written' = <<type_spec, parameters>>
          /\ argument' = type_spec \o parameters
          /\ flag' = s
          /\ returned' = parse_content_type(type_spec \o parameters, s)
    /\ pc' = "parse_content_type"
    /\ UNCHANGED <<reparsed, subject, raised, acceptVars, selectVars, parserVars>>

\* parse_content_type(str(x)) of the x that parse_content_type returned
ParseStr ==
    /\ pc = "parse_content_type"
    /\ returned.exc = ""
    /\ reparsed' = parse_content_type(ContentType__str__(returned.val), TRUE)
    /\ pc' = "parse_content_type(str(x))"
    /\ UNCHANGED <<written, argument, flag, returned, subject, raised, acceptVars,
                   selectVars, parserVars>>

\* parse_link(str(h), strict=...) of one h that parse_link returned
ParseLinkStr ==
    /\ pc = "parse_link"
    /\ returned.exc = ""
    /\ \E i \in 1..Len(returned.val) :
          /\ subject' = returned.val[i]
          /\ reparsed' = parse_link(LinkHeader__str__(returned.val[i]), flag)
    /\ pc' = "parse_link(str(h))"
    /\ UNCHANGED <<written, argument, flag, returned, raised, acceptVars,
                   selectVars, parserVars>>

\* x = parse_content_type(...) or h = parse_link(...)[i]: the caller keeps
\* the object and reads its attributes; target is a property, parameters and
\* rel are cached properties, parameters an ImmutableSequence.
Hold ==
    /\ returned.exc = ""
    /\ \/ /\ pc = "parse_content_type"
          /\ subject' = returned.val
          /\ pc' = "holds a ContentType"
       \/ /\ pc = "parse_link"
          /\ \E i \in 1..Len(returned.val) :
                subject' =
                    [target |-> returned.val[i]._target,
                     parameters |->
                         LinkHeader_parameters(returned.val[i]._params),
                     rel |-> LinkHeader_rel(returned.val[i])]
          /\ pc' = "holds a LinkHeader"
    /\ UNCHANGED <<written, argument, flag, returned, reparsed, raised,
                   acceptVars, selectVars, parserVars>>

\* setattr(x, name, value): ContentType defines neither __slots__ nor
\* __setattr__, so its attributes take any value; LinkHeader.target is a
\* property without a setter; a cached_property is stored in, and assigned
\* through, the instance's __dict__.
SetAttribute ==
    /\ \/ /\ pc = "holds a ContentType"
          /\ \E name \in {"content_type", "content_subtype", "content_suffix"} :
                subject' = [subject EXCEPT ![name] = <<"z">>]
          /\ raised' = ""
       \/ /\ pc = "holds a ContentType"
          /\ subject' = [subject EXCEPT !.quality = Float(FloatUnit \div 2)]
          /\ raised' = ""
       \/ /\ pc = "holds a LinkHeader"
          /\ subject' = subject
          /\ raised' = "AttributeError"
       \/ /\ pc = "holds a LinkHeader"
          /\ subject' = [subject EXCEPT !.rel = <<"z">>]
          /\ raised' = ""
       \/ /\ pc = "holds a LinkHeader"
          /\ subject' = [subject EXCEPT !.parameters = <<>>]
          /\ raised' = ""
    /\ pc' = "operated"
    /\ UNCHANGED <<written, argument, flag, returned, reparsed, acceptVars,
                   selectVars, parserVars>>

\* x.parameters[key] = value on the dict of a ContentType, and
\* h.parameters[index] = value on an ImmutableSequence, whose __setitem__
\* raises TypeError.
SetItem ==
    /\ \/ /\ pc = "holds a ContentType"
          /\ \E key \in {<<"x">>, <<"z">>} :
                subject' = [subject EXCEPT
                                !.parameters = DictSet(@, key, <<"z">>)]
          /\ raised' = ""
       \/ /\ pc = "holds a LinkHeader"
          /\ subject' = subject
          /\ raised' = "TypeError"
    /\ pc' = "operated"
    /\ UNCHANGED <<written, argument, flag, returned, reparsed, acceptVars,
                   selectVars, parserVars>>

\* h.parameters.append(value): ImmutableSequence is an abc.Sequence and has
\* no append.
ParametersAppend ==
    /\ pc = "holds a LinkHeader"
    /\ subject' = subject
    /\ raised' = "AttributeError"
    /\ pc' = "operated"
    /\ UNCHANGED <<written, argument, flag, returned, reparsed, acceptVars,
                   selectVars, parserVars>>

Next ==
    \/ ParseAccept
    \/ SelectContentType
    \/ NewParameterParser
    \/ AddValue
    \/ ReadValues
    \/ ParseLink
    \/ ParseList
    \/ ParseQualifiedList
    \/ ParseCacheControl
    \/ ParseForwarded
    \/ ParseContentType
    \/ ParseStr
    \/ ParseLinkStr
    \/ Hold
    \/ SetAttribute
    \/ SetItem
    \/ ParametersAppend

Spec == Init /\ [][Next]_vars

SpecAccept == Init /\ [][ParseAccept]_vars

SpecSelect == Init /\ [][SelectContentType]_vars

SpecParser == Init /\ [][NewParameterParser \/ AddValue \/ ReadValues]_vars

SpecLink == Init /\ [][ParseLink \/ ParseLinkStr]_vars

SpecList == Init /\ [][ParseList]_vars

SpecQualified == Init /\ [][ParseQualifiedList]_vars

SpecCache == Init /\ [][ParseCacheControl]_vars

SpecForwarded == Init /\ [][ParseForwarded]_vars

SpecContentType == Init /\ [][ParseContentType \/ ParseStr]_vars

SpecImmutable ==
    Init /\ [][ParseContentType \/ ParseLink \/ Hold \/ SetAttribute \/ SetItem
                \/ ParametersAppend]_vars

\* The two parsers that remove comments before they tokenize.
SpecComments == Init /\ [][ParseContentType \/ ParseLink]_vars

(***************************************************************************)
(* What the caller declared and what the claims say of it                  *)
(***************************************************************************)

\* A media range as a caller writes it down: no quality, no suffix.
MediaType(content_type, content_subtype, parameters) ==
    [content_type |-> <<content_type>>, content_subtype |-> <<content_subtype>>,
     parameters |-> parameters]

\* What an element of an Accept header declares: whether it is a media range
\* at all, the range, and the text of its q parameter ("" without one).
Declares(valid, range, q) == [valid |-> valid, range |-> range, q |-> q]

Declared(element) ==
    CASE element = <<"a", "/", "b">> ->
             Declares(TRUE, MediaType("a", "b", <<>>), "")
      [] element = <<"a", "/", "b", ";", "q", "=", "1", ".", "0">> ->
             Declares(TRUE, MediaType("a", "b", <<>>), "1.0")
      [] element = <<"c", "/", "d", ";", "q", "=", Quote, "1", ".", "0", Quote>> ->
             Declares(TRUE, MediaType("c", "d", <<>>), "1.0")
      [] element = <<"*", "/", "*", ";", "q", "=", "1">> ->
             Declares(TRUE, MediaType("*", "*", <<>>), "1")
      [] element = <<"b", "/", "*">> ->
             Declares(TRUE, MediaType("b", "*", <<>>), "")
      [] element = <<"a", "/", "b", ";", "Q", "=", "0", ".", "5">> ->
             Declares(TRUE, MediaType("a", "b", <<>>), "0.5")
      [] element = <<"c", "/", "d", ";", "q", "=", "n", "a", "n">> ->
             Declares(TRUE, MediaType("c", "d", <<>>), "nan")
      [] element = <<"a", "/", "b", ";", "x", "=", "1">> ->
             Declares(TRUE, MediaType("a", "b", <<<<<<"x">>, <<"1">>>>>>), "")
      [] element = <<"a", "/", "b", ";", "q", "=", "a", "b", "c">> ->
             Declares(TRUE, MediaType("a", "b", <<>>), "abc")
      [] element = <<"a", "/", "b", ";", "x", "=">> ->
             Declares(FALSE, MediaType("a", "b", <<>>), "")
      [] element = <<"*">> ->
             Declares(FALSE, MediaType("*", "*", <<>>), "")
      [] element = <<>> ->
             Declares(FALSE, MediaType("*", "*", <<>>), "")

\* The elements of header_value, as the caller wrote them between the commas.
DeclaredElements(pieces) == [m \in 1..Len(pieces) |-> Declared(strip(pieces[m]))]

\* The entry is the media range that was declared.
SameRange(entry, range) ==
    /\ entry.content_type = range.content_type
    /\ entry.content_subtype = range.content_subtype
    /\ entry.content_suffix = None
    /\ Range(entry.parameters) = Range(range.parameters)

\* The m-th element is the only one of the header that declares its range.
Unique(declared, m) ==
    \A n \in 1..Len(declared) :
        (n # m /\ declared[n].valid) => declared[n].range # declared[m].range

Returned == pc = "parse_accept" /\ accepted.exc = ""

One == Float(FloatUnit)

\* The numeric value of a declared q text, 1.0 when there is none.
NumericValue(q) ==
    CASE q = "" -> One
      [] q = "1.0" -> One
      [] q = "1" -> One
      [] q = "0.5" -> Float(FloatUnit \div 2)
      [] q = "nan" -> NaN

\* The quality parse_accept is meant to give: the synthetic 5.00000001 for a
\* q parameter written 1.0, and the numeric value otherwise.
SyntheticOrNumericValue(q) ==
    IF q = "1.0" THEN Float(5 * FloatUnit + 1) ELSE NumericValue(q)

\* x is the more specific of two media ranges.
MoreSpecific(x, y) ==
    \/ /\ x.content_type # <<"*">> /\ x.content_subtype # <<"*">>
       /\ y.content_subtype = <<"*">>
    \/ x.content_type # <<"*">> /\ y.content_type = <<"*">>
    \/ /\ x.content_type = y.content_type
       /\ x.content_subtype = y.content_subtype
       /\ Len(x.parameters) > Len(y.parameters)

\* C3: the list parse_accept returns is in non-increasing order of quality:
\* no entry is followed by an entry of strictly greater quality.
C3_NonIncreasingQuality ==
    Returned =>
        \A i, j \in 1..Len(accepted.val) :
            i < j => ~FloatGt(accepted.val[j].quality, accepted.val[i].quality)

\* C4: every entry declared with an explicit q equal to 1.0, spelled 1.0 or
\* 1, comes before every entry declared without a q parameter.
C4_ExplicitOneBeforeNoQ ==
    LET Holds(declared) ==
            \A m, n \in 1..Len(declared) :
                (/\ declared[m].valid /\ declared[m].q \in {"1.0", "1"}
                 /\ declared[n].valid /\ declared[n].q = ""
                 /\ Unique(declared, m) /\ Unique(declared, n))
                => \A i, j \in 1..Len(accepted.val) :
                       (/\ SameRange(accepted.val[i], declared[m].range)
                        /\ SameRange(accepted.val[j], declared[n].range))
                       => i < j
    IN  Returned => Holds(DeclaredElements(split(header_value, ",")))

C6_MoreSpecificFirst ==
    Returned =>
        \A i, j \in 1..Len(accepted.val) :
            (/\ i < j
             /\ FloatEq(accepted.val[i].quality, accepted.val[j].quality))
            => ~MoreSpecific(accepted.val[j], accepted.val[i])

\* C7: parse_accept(strict=False) fails for no header and returns exactly the
\* entries of the elements that are media ranges; parse_accept(strict=True)
\* raises a ValueError when an element is none.
C7_NonStrictNeverFails ==
    LET Valid(declared) == {m \in 1..Len(declared) : declared[m].valid}
        Holds(declared) ==
            /\ ~strict =>
                   /\ accepted.exc = ""
                   /\ Len(accepted.val) = Cardinality(Valid(declared))
                   /\ \A m \in Valid(declared) :
                          \E i \in 1..Len(accepted.val) :
                              SameRange(accepted.val[i], declared[m].range)
            /\ (strict /\ Valid(declared) # 1..Len(declared)) =>
                   accepted.exc \in {"ValueError", "MalformedContentType",
                                     "StrictHeaderParsingFailure"}
    IN  pc = "parse_accept" =>
            Holds(DeclaredElements(split(header_value, ",")))

\* C8, as the claim states it: no returned entry has a q parameter, and the
\* quality of each is the numeric value of the q it was declared with, or
\* 1.0 without one.
C8_QualityIsNumericValueOfQ ==
    LET Holds(declared) ==
            /\ \A i \in 1..Len(accepted.val) :
                   /\ ~DictHas(accepted.val[i].parameters, <<"q">>)
                   /\ \E m \in 1..Len(declared) :
                          /\ declared[m].valid
                          /\ SameRange(accepted.val[i], declared[m].range)
                          /\ accepted.val[i].quality
                                 = NumericValue(declared[m].q)
            /\ \A m \in 1..Len(declared) :
                   declared[m].valid =>
                   \E i \in 1..Len(accepted.val) :
                       /\ SameRange(accepted.val[i], declared[m].range)
                       /\ accepted.val[i].quality = NumericValue(declared[m].q)
    IN  Returned => Holds(DeclaredElements(split(header_value, ",")))

\* C8, amended: no returned entry has a q parameter, and the quality of each
\* is the numeric value of the q it was declared with, except that a q
\* written 1.0 gives the synthetic quality 5.00000001, or 1.0 without one.
C8_QualityIsSyntheticOrNumericValueOfQ ==
    LET Holds(declared) ==
            /\ \A i \in 1..Len(accepted.val) :
                   /\ ~DictHas(accepted.val[i].parameters, <<"q">>)
                   /\ \E m \in 1..Len(declared) :
                          /\ declared[m].valid
                          /\ SameRange(accepted.val[i], declared[m].range)
                          /\ accepted.val[i].quality
                                 = SyntheticOrNumericValue(declared[m].q)
            /\ \A m \in 1..Len(declared) :
                   declared[m].valid =>
                   \E i \in 1..Len(accepted.val) :
                       /\ SameRange(accepted.val[i], declared[m].range)
                       /\ accepted.val[i].quality
                              = SyntheticOrNumericValue(declared[m].q)
            /\ Len(accepted.val)
                   = Cardinality({m \in 1..Len(declared) : declared[m].valid})
    IN  Returned => Holds(DeclaredElements(split(header_value, ",")))

\* A header of three entries was parsed: one declared with q=1.0, one with a
\* lesser q and one without q.
C8_Witness ==
    /\ Returned
    /\ Len(accepted.val) = 3
    /\ \E i, j, k \in 1..3 :
          /\ accepted.val[i].quality = Float(5 * FloatUnit + 1)
          /\ accepted.val[j].quality = Float(FloatUnit \div 2)
          /\ accepted.val[k].quality = One
          /\ Len(accepted.val[k].parameters) = 1

\* The candidate equals the pattern: type, subtype, suffix and parameters.
Exact(candidate, pattern) ==
    /\ candidate.content_type = pattern.content_type
    /\ candidate.content_subtype = pattern.content_subtype
    /\ candidate.content_suffix = pattern.content_suffix
    /\ Range(candidate.parameters) = Range(pattern.parameters)

\* Type and subtype of the candidate are each equal to the pattern's or
\* wildcarded in the pattern.
Matches(candidate, pattern) ==
    /\ pattern.content_type \in {<<"*">>, candidate.content_type}
    /\ pattern.content_subtype \in {<<"*">>, candidate.content_subtype}

\* select_content_type was called with a default it accepts, or with none.
Selected ==
    /\ pc = "select_content_type"
    /\ default = NoDefault \/ default \in Range(available)

\* The pairs (pattern, candidate) by their places in the scan, and the first
\* exact one of them.
ExactPairs(patterns, candidates) ==
    {e \in (1..Len(patterns)) \X (1..Len(candidates)) :
        Exact(candidates[e[2]], patterns[e[1]])}

Earlier(e, o) == e[1] < o[1] \/ (e[1] = o[1] /\ e[2] < o[2])

FirstExact(patterns, candidates) ==
    CHOOSE e \in ExactPairs(patterns, candidates) :
        \A o \in ExactPairs(patterns, candidates) : e = o \/ Earlier(e, o)

\* C1: scanning the patterns by descending quality and the candidates in
\* sorted order, the first pair whose candidate equals its pattern decides
\* the call: it is returned, whatever matches came before it, unless the
\* pattern's quality is 0.0, and then the call raises NoMatch.
C1_FirstExactMatchDecides ==
    LET Decided(patterns, candidates, e) ==
            selected = IF patterns[e[1]].quality = Float(0)
                       THEN Raise("NoMatch")
                       ELSE Ok(<<candidates[e[2]], patterns[e[1]]>>)
        Holds(patterns, candidates) ==
            ExactPairs(patterns, candidates) # {}
            => Decided(patterns, candidates, FirstExact(patterns, candidates))
    IN  Selected => Holds(sorted_requested(requested),
                          sorted_available(available))

\* An exact match was returned although a candidate had matched an earlier
\* pattern without being equal to it.
C1_Witness ==
    LET Seen(patterns, candidates) ==
            /\ ExactPairs(patterns, candidates) # {}
            /\ \E o \in (1..Len(patterns)) \X (1..Len(candidates)) :
                  /\ Earlier(o, FirstExact(patterns, candidates))
                  /\ Matches(candidates[o[2]], patterns[o[1]])
    IN  /\ Selected
        /\ selected.exc = ""
        /\ Exact(selected.val[1], selected.val[2])
        /\ Seen(sorted_requested(requested), sorted_available(available))

FiveNames == {rel, media, type, title, title_star}

Occurs(name) == \E i \in 1..Len(fed) : fed[i][1] = name

\* The value of the first occurrence of name among the parameters fed.
FirstValue(name) ==
    fed[CHOOSE i \in 1..Len(fed) :
            fed[i][1] = name /\ \A k \in 1..(i - 1) : fed[k][1] # name][2]

Entries(name) == {i \in 1..Len(emitted) : emitted[i][1] = name}

StrictlyRead == pc = "values_read" /\ pp_strict

C10_TitleStarOverridesTitle ==
    StrictlyRead =>
        /\ (Occurs(title) /\ Occurs(title_star)) =>
               /\ Len(emitted) >= 2
               /\ emitted[Len(emitted) - 1]
                      = <<title_star, FirstValue(title_star)>>
               /\ emitted[Len(emitted)] = <<title, FirstValue(title_star)>>
        /\ (Occurs(title) /\ ~Occurs(title_star)) =>
               /\ Cardinality(Entries(title)) = 1
               /\ <<title, FirstValue(title)>> \in Range(emitted)
               /\ Entries(title_star) = {}
        /\ (~Occurs(title) /\ Occurs(title_star)) =>
               /\ Cardinality(Entries(title_star)) = 1
               /\ <<title_star, FirstValue(title_star)>> \in Range(emitted)
               /\ Entries(title) = {}
        /\ Occurs(title_star) =>
               \A i \in Entries(title) :
                   emitted[i][2] = FirstValue(title_star)

\* A title was declared before a title* of another value.
C10_Witness ==
    /\ StrictlyRead
    /\ fed = << <<title, <<"1">>>>, <<title_star, <<"2">>>>, <<title, <<"2">>>> >>
    /\ emitted = << <<title_star, <<"2">>>>, <<title, <<"2">>>> >>

(***************************************************************************)
(* Link values and comma-separated lists as the caller wrote them          *)
(***************************************************************************)

Pair(name, value) == <<<<name>>, <<value>>>>

\* The (name, value) pairs a link value declares, in the order written.
DeclaredParameters(element) ==
    CASE element = LinkText.interleaved ->
             <<Pair("a", "1"), Pair("b", "2"), Pair("a", "3")>>
      [] element = LinkText.two_rel -> << <<rel, <<"1">>>>, <<rel, <<"2">>>> >>
      [] element = LinkText.quoted_comma -> << <<<<"x">>, <<"1", ",", "2">>>> >>
      [] element = LinkText.quoted_semicolon -> << <<<<"x">>, <<"1", ";", "2">>>> >>
      [] element = LinkText.target_as_quoted -> << <<<<"x">>, <<"1", ",", "2">>>> >>
      [] element = LinkText.empty_quoted -> << <<<<"x">>, <<>>>> >>
      [] element = LinkText.titles ->
             << <<title, <<"1">>>>, <<title_star, <<"2">>>> >>
      [] element = LinkText.unclosed_quote -> << <<<<"x">>, <<>>>> >>
      [] OTHER -> <<>>

\* The link value has no <target>, or text other than ";" after it.
MalformedLink(element) == element \in {LinkText.no_target, LinkText.no_semicolon}

\* C11: with strict=False, the parameters of each returned LinkHeader are
\* every (name, value) occurrence of the link value, duplicates included, in
\* the order in which they were declared, also when names are interleaved.
C11_NonStrictKeepsDeclarationOrder ==
    (pc = "parse_link" /\ ~flag /\ returned.exc = "")
    => /\ Len(returned.val) = Len(written)
       /\ \A i \in 1..Len(written) :
             LinkHeader_parameters(returned.val[i]._params)
                 = DeclaredParameters(written[i])

\* C12: parse_link raises MalformedLinkValue when a link value does not start
\* with a <target> and when the text after a target does not start with ";",
\* and a call that raises returns no list, whatever was parsed before.
C12_MalformedLinkRaisesMalformedLinkValue ==
    pc = "parse_link"
    => /\ (\E i \in 1..Len(written) : MalformedLink(written[i]))
              => returned.exc = "MalformedLinkValue"
       /\ returned.exc # "" => returned.val = <<>>

\* The items a piece of a list declares: one for each comma outside quotes,
\* a quoted piece without its quotes.
DeclaredItems(piece) ==
    CASE piece = ListText.a -> << <<"a">> >>
      [] piece = ListText.b_c -> << <<"b">>, <<"c">> >>
      [] piece = ListText.quoted_b_c -> << <<"b", ",", "c">> >>
      [] piece = ListText.quoted_a -> << <<"a">> >>
      [] piece = ListText.padded_d -> << <<"d">> >>
      [] piece = ListText.empty_quoted -> << <<>> >>
      [] piece = ListText.empty -> << <<>> >>

RECURSIVE Flatten(_)
Flatten(lists) ==
    IF lists = <<>> THEN <<>> ELSE Head(lists) \o Flatten(Tail(lists))

\* C13: in parse_list a comma inside a double-quoted span never separates,
\* every comma outside one does, and the quoted text reaches its item
\* unchanged, also when the same text occurs elsewhere in the header.
C13_QuotedCommaNeverSeparates ==
    (pc = "parse_list" /\ written # <<>>)
    => returned = Ok(Flatten([i \in 1..Len(written) |->
                                 DeclaredItems(written[i])]))

(***************************************************************************)
(* Qualified lists as the caller wrote them                                *)
(***************************************************************************)

\* What a token of the header declares: its name and the text of its q
\* parameter ("" without one).
Token(name, q) == [name |-> <<name>>, q |-> q]

DeclaredToken(element) ==
    CASE element = QualifiedText.a -> Token("a", "")
      [] element = QualifiedText.b -> Token("b", "")
      [] element = QualifiedText.wildcard -> Token("*", "")
      [] element = QualifiedText.a_q_1_0 -> Token("a", "1.0")
      [] element = QualifiedText.b_q_1 -> Token("b", "1")
      [] element = QualifiedText.c_q_0_5 -> Token("c", "0.5")
      [] element = QualifiedText.d_q_0_1 -> Token("d", "0.1")
      [] element = QualifiedText.d_q_0 -> Token("d", "0")
      [] element = QualifiedText.c_q_nan -> Token("c", "nan")
      [] element = QualifiedText.a_q_abc -> Token("a", "abc")

DeclaredTokens == [i \in 1..Len(written) |-> DeclaredToken(written[i])]

\* The names of the declared tokens other than "*" whose q is in qs, in
\* declaration order.
NamesWith(qs) ==
    LET Names(tokens) == [i \in 1..Len(tokens) |-> tokens[i].name]
    IN  Names(SelectSeq(DeclaredTokens,
                        LAMBDA t : t.name # <<"*">> /\ t.q \in qs))

\* The q texts whose quality is at least 0.001, a token without q having the
\* quality 1.0, and those whose quality is below 0.001.
AtLeastSmallest == {"", "1.0", "1", "0.5", "0.1"}
BelowSmallest == {"0"}
\* The q texts whose quality is not below 0.001: nan is neither.
NotBelowSmallest == AtLeastSmallest \cup {"nan"}

Count(s, x) == Cardinality({i \in 1..Len(s) : s[i] = x})

SameBag(s, t) ==
    /\ Len(s) = Len(t)
    /\ \A x \in Range(s) \cup Range(t) : Count(s, x) = Count(t, x)

WildcardDeclared == \E i \in 1..Len(written) : written[i] = QualifiedText.wildcard

\* out is the tokens of first in some order, then "*" if one was declared,
\* then the tokens of last as they stand.
ThreeGroups(out, first, last) ==
    LET star == IF WildcardDeclared THEN 1 ELSE 0
    IN  /\ Len(out) = Len(first) + star + Len(last)
        /\ SameBag(SubSeq(out, 1, Len(first)), first)
        /\ WildcardDeclared => out[Len(first) + 1] = <<"*">>
        /\ SubSeq(out, Len(first) + star + 1, Len(out)) = last

QualifiedReturned ==
    /\ pc \in {"parse_accept_charset", "parse_accept_encoding",
               "parse_accept_language"}
    /\ returned.exc = ""

\* C14: the output of the qualified-list parsers is every token other than
\* "*" whose quality is at least 0.001, then one "*" if and only if the input
\* had one, then every token whose quality is below 0.001 in declaration
\* order, and every token other than "*" appears exactly once.
C14_AcceptedWildcardRejected ==
    QualifiedReturned
    => ThreeGroups(returned.val, NamesWith(AtLeastSmallest),
                   NamesWith(BelowSmallest))

\* C14, amended: the first group is every token other than "*" whose quality
\* is not below 0.001, which a quality of nan is not.
C14_NotRejectedWildcardRejected ==
    QualifiedReturned
    => ThreeGroups(returned.val, NamesWith(NotBelowSmallest),
                   NamesWith(BelowSmallest))

\* A header with a rejected token, the wildcard and a token of quality nan
\* came out as the nan token, the wildcard and the rejected token.
C14_Witness ==
    /\ QualifiedReturned
    /\ written = <<QualifiedText.d_q_0, QualifiedText.wildcard, QualifiedText.c_q_nan>>
    /\ returned.val = << <<"c">>, <<"*">>, <<"d">> >>

\* C15: the accepted tokens come out as those with an explicit quality of 1.0
\* in declaration order, then those without q in declaration order, then
\* those with a lesser explicit quality by descending quality.
C15_ExplicitOneThenImplicitThenLesser ==
    LET Expected ==
            NamesWith({"1.0", "1"}) \o NamesWith({""}) \o NamesWith({"0.5"})
            \o NamesWith({"0.1"})
    IN  (QualifiedReturned /\ NamesWith({"nan"}) = <<>>)
        => SubSeq(returned.val, 1, Len(Expected)) = Expected

(***************************************************************************)
(* Cache-Control directives as the caller wrote them                       *)
(***************************************************************************)

\* The names of the directives that the caller wrote.
public == <<"p", "u", "b", "l", "i", "c">>
no_cache == <<"n", "o", "-", "c", "a", "c", "h", "e">>

\* What a directive declares: its name, whether it was written bare, with a
\* value or with "=" and nothing after it, and the value.
Directive(name, form, value) == [name |-> name, form |-> form, value |-> value]

DeclaredDirective(element) ==
    CASE element = CacheText.public -> Directive(public, "bare", DirectiveNone)
      [] element = CacheText.public_5 ->
             Directive(public, "valued", DirectiveInt(5))
      [] element = CacheText.public_empty ->
             Directive(public, "empty", DirectiveNone)
      [] element = CacheText.public_x ->
             Directive(public, "valued", DirectiveStr(<<"x">>))
      [] element = CacheText.a -> Directive(<<"a">>, "bare", DirectiveNone)
      [] element = CacheText.a_empty ->
             Directive(<<"a">>, "empty", DirectiveNone)
      [] element = CacheText.a_1 ->
             Directive(<<"a">>, "valued", DirectiveInt(1))
      [] element = CacheText.no_cache ->
             Directive(no_cache, "bare", DirectiveNone)

DeclaredDirectives ==
    [i \in 1..Len(written) |-> DeclaredDirective(written[i])]

\* must-revalidate, no-cache, no-store, no-transform, only-if-cached, public,
\* private, proxy-revalidate
BooleanVocabulary == Range(_CACHE_CONTROL_BOOL_DIRECTIVES)

CacheControlReturned == pc = "parse_cache_control" /\ returned.exc = ""

\* What the result holds for a directive written as d is what the claim says
\* of its form.
MappedAsWritten(result, d) ==
    CASE d.form = "bare" ->
             /\ DictHas(result, d.name)
             /\ DictGet(result, d.name)
                    = IF d.name \in BooleanVocabulary
                      THEN DirectiveTrue ELSE DirectiveNone
      [] d.form = "valued" ->
             /\ DictHas(result, d.name)
             /\ DictGet(result, d.name) = d.value
      [] d.form = "empty" -> ~DictHas(result, d.name)

\* C16: a directive written without "=" maps to True when its name is in the
\* boolean vocabulary and to None otherwise, a directive written with a
\* value keeps the value, and a directive written "name=" is absent.
C16_DirectiveMappedAsWritten ==
    CacheControlReturned
    => \A i \in 1..Len(written) :
           MappedAsWritten(returned.val, DeclaredDirectives[i])

\* The i-th directive is the last of its name that is not written "name=".
Decides(ds, i) ==
    /\ ds[i].form # "empty"
    /\ \A j \in (i + 1)..Len(ds) :
           ds[j].name = ds[i].name => ds[j].form = "empty"

\* C16, amended: when a name is written more than once, the last directive
\* of that name that is not written "name=" decides its entry as above, and
\* the name is absent when every directive of that name is written "name=".
C16_LastDirectiveOfNameDecides ==
    LET Holds(result, ds) ==
            \A i \in 1..Len(ds) :
                /\ Decides(ds, i) => MappedAsWritten(result, ds[i])
                /\ (\A j \in 1..Len(ds) :
                        ds[j].name = ds[i].name => ds[j].form = "empty")
                       => ~DictHas(result, ds[i].name)
    IN  CacheControlReturned => Holds(returned.val, DeclaredDirectives)

\* "public=5, public, a=" came out as public: True and nothing else.
C16_Witness ==
    /\ CacheControlReturned
    /\ written = <<CacheText.public_5, CacheText.public, CacheText.a_empty>>
    /\ returned.val = << <<public, DirectiveTrue>> >>

(***************************************************************************)
(* C17: strict parse_forwarded raises exactly for a non-standard name      *)
(***************************************************************************)

\* The lower-cased parameter names each entry declares; the entry without
\* `=` declares no name=value pair.
DeclaredNames(entry) ==
    CASE entry = ForwardedText.for -> { <<"f", "o", "r">> }
      [] entry = ForwardedText.For_by -> { <<"f", "o", "r">>, <<"b", "y">> }
      [] entry = ForwardedText.x -> { <<"x">> }
      [] entry = ForwardedText.FOR_X -> { <<"f", "o", "r">>, <<"x">> }
      [] entry = ForwardedText.no_equals -> {}
      [] entry = ForwardedText.host_proto ->
             { <<"h", "o", "s", "t">>, <<"p", "r", "o", "t", "o">> }

NonStandardNameWritten ==
    \E i \in 1..Len(written) :
        ~(DeclaredNames(written[i]) \subseteq StandardParameters)

\* C17: with only_standard_parameters enabled, parse_forwarded raises
\* StrictHeaderParsingFailure carrying `Forwarded` and the complete header
\* value if and only if some parameter name of some entry, lower-cased, is
\* not one of for, proto, by, host; no list is returned in that case, and
\* otherwise the result is that of the non-strict call.
C17_StrictRaisesIffNonStandardName ==
    (pc = "parse_forwarded" /\ flag) =>
        IF NonStandardNameWritten
        THEN returned = RaiseWith("StrictHeaderParsingFailure",
                                  <<"F", "o", "r", "w", "a", "r", "d", "e",
                                    "d">>,
                                  argument)
        ELSE returned = parse_forwarded(argument, FALSE)

(***************************************************************************)
(* C18: the subtype is split once at its last `+`                          *)
(***************************************************************************)

ContentTypeReturned == pc = "parse_content_type"

\* What each type/subtype text with a `+` in its subtype declares: the
\* subtype up to the last `+` and the suffix after it, in lower case.
DeclaredSplit(type_spec) ==
    CASE type_spec = TypeText.suffix -> << <<"b">>, <<"c">> >>
      [] type_spec = TypeText.upper_suffix -> << <<"b">>, <<"c">> >>
      [] type_spec = TypeText.two_plus -> << <<"b", "+", "c">>, <<"d">> >>
      [] type_spec = TypeText.empty_suffix -> << <<"b">>, <<>> >>

SubtypeWithPlus ==
    {TypeText.suffix, TypeText.upper_suffix, TypeText.two_plus, TypeText.empty_suffix}

\* The parameter texts that are lists of name=value pairs.
WellFormedParameters == Texts(ParameterText) \ {ParameterText.no_equals}

\* C18: for every input whose subtype contains at least one `+`,
\* parse_content_type succeeds; the text after the last `+` is the suffix and
\* everything before it, earlier `+` included, is the subtype.
C18_SplitOnceAtLastPlus ==
    ( /\ ContentTypeReturned
      /\ written[1] \in SubtypeWithPlus
      /\ written[2] \in WellFormedParameters ) =>
        /\ returned.exc = ""
        /\ returned.val.content_subtype = DeclaredSplit(written[1])[1]
        /\ returned.val.content_suffix = DeclaredSplit(written[1])[2]

(***************************************************************************)
(* C19: names are lower case and trimmed                                   *)
(***************************************************************************)

LowerCased(text) == \A i \in 1..Len(text) : text[i] \notin Range(Upper)

Trimmed(text) ==
    text = <<>> \/ (text[1] # " " /\ text[Len(text)] # " ")

Normalized(text) == LowerCased(text) /\ Trimmed(text)

\* C19: every ContentType that parse_content_type returns has its type,
\* subtype, suffix and every parameter name in lower case and without leading
\* or trailing whitespace, also with whitespace around the `=` of a
\* parameter; the values are in lower case unless normalize_parameter_values
\* is false.
C19_NamesLowerCasedAndTrimmed ==
    (ContentTypeReturned /\ returned.exc = "") =>
        /\ Normalized(returned.val.content_type)
        /\ Normalized(returned.val.content_subtype)
        /\ returned.val.content_suffix # None
               => Normalized(returned.val.content_suffix)
        /\ \A nv \in Range(returned.val.parameters) :
               /\ Normalized(nv[1])
               /\ flag => LowerCased(nv[2])

(***************************************************************************)
(* C20: parse_content_type(str(x)) = x                                     *)
(***************************************************************************)

\* C20: for every ContentType x that parse_content_type returns,
\* parse_content_type(str(x)) succeeds and equals x in type, subtype, suffix
\* and parameter map.
C20_StrRoundTrip ==
    pc = "parse_content_type(str(x))" =>
        /\ reparsed.exc = ""
        /\ reparsed.val.content_type = returned.val.content_type
        /\ reparsed.val.content_subtype = returned.val.content_subtype
        /\ reparsed.val.content_suffix = returned.val.content_suffix
        /\ Range(reparsed.val.parameters) = Range(returned.val.parameters)

(***************************************************************************)
(* C21: parse_link(str(h)) gives h back                                    *)
(***************************************************************************)

LinkReparsed == pc = "parse_link(str(h))"

\* C21: for every LinkHeader h that parse_link returns, parse_link(str(h))
\* in the same mode returns exactly one LinkHeader, with the target, the rel
\* and the set of (name, value) parameters of h.
C21_LinkStrRoundTrip ==
    LinkReparsed =>
        /\ reparsed.exc = ""
        /\ Len(reparsed.val) = 1
        /\ reparsed.val[1]._target = subject._target
        /\ LinkHeader_rel(reparsed.val[1]) = LinkHeader_rel(subject)
        /\ Range(LinkHeader_parameters(reparsed.val[1]._params))
               = Range(LinkHeader_parameters(subject._params))

(***************************************************************************)
(* C22: returned values cannot be changed                                  *)
(***************************************************************************)

Holding == pc \in {"holds a ContentType", "holds a LinkHeader"}

\* C22: once a parser has returned a ContentType or a LinkHeader, every
\* operation of the caller on its fields (assigning an attribute, assigning
\* into or appending to its parameters) is rejected with an error and leaves
\* type, subtype, suffix, parameters, quality, target and rel unchanged.
C22_ReturnedValuesImmutable ==
    [][(Holding /\ pc' = "operated") => (raised' # "" /\ subject' = subject)]_vars

(***************************************************************************)
(* C23: parse_link fails with MalformedLinkValue only                      *)
(***************************************************************************)

\* C23: every failure of parse_link is a MalformedLinkValue, also for a
\* parameter that has no "=", more than one "=" or an empty value.
C23_LinkFailsWithMalformedLinkValueOnly ==
    pc = "parse_link" => returned.exc \in {"", "MalformedLinkValue"}

(***************************************************************************)
(* C24: the best of the matches that are not exact                         *)
(***************************************************************************)

\* 0 for a pattern without wildcard, 1 when only its subtype is "*", 2 when
\* type and subtype are both "*".
MatchType(pattern) ==
    IF pattern.content_subtype # <<"*">> THEN 0
    ELSE IF pattern.content_type # <<"*">> THEN 1 ELSE 2

\* The candidate's parameter count, minus one for each of its parameters that
\* the pattern has with the same value, plus one for each that the pattern
\* has with a different value.
ParameterDistance(candidate, pattern) ==
    Len(candidate.parameters)
    - Cardinality({nv \in Range(candidate.parameters) :
                      nv \in Range(pattern.parameters)})
    + Cardinality({nv \in Range(candidate.parameters) :
                      \E other \in Range(pattern.parameters) :
                          other[1] = nv[1] /\ other[2] # nv[2]})

\* The pairs (pattern, candidate) by their places in the scan whose candidate
\* matches the pattern.
MatchingPairs(patterns, candidates) ==
    {e \in (1..Len(patterns)) \X (1..Len(candidates)) :
        Matches(candidates[e[2]], patterns[e[1]])}

\* e is a better match than o: lower match type, then lower distance, then
\* met earlier.
Better(patterns, candidates, e, o) ==
    LET te == MatchType(patterns[e[1]])
        to == MatchType(patterns[o[1]])
        de == ParameterDistance(candidates[e[2]], patterns[e[1]])
        do == ParameterDistance(candidates[o[2]], patterns[o[1]])
    IN  \/ te < to
        \/ te = to /\ de < do
        \/ te = to /\ de = do /\ Earlier(e, o)

\* The patterns by descending quality, an unset quality counting as 1.0,
\* patterns of equal quality in the order given.
ByDescendingQuality(patterns) ==
    LET Quality(i) == IF patterns[i].quality = NoQuality THEN FloatUnit
                      ELSE patterns[i].quality.v
        Before(i, j) ==
            Quality(i) > Quality(j) \/ (Quality(i) = Quality(j) /\ i < j)
        Place(i) == 1 + Cardinality({j \in 1..Len(patterns) : Before(j, i)})
    IN  [k \in 1..Len(patterns) |->
            patterns[CHOOSE i \in 1..Len(patterns) : Place(i) = k]]

\* C24: when no candidate equals a pattern, select_content_type returns the
\* matching (candidate, pattern) pair with the lowest match type, then the
\* lowest parameter distance, then the earliest in the scan, the patterns
\* being visited by descending quality.
C24_BestInexactMatchReturned ==
    LET Holds(patterns, candidates) ==
            ( /\ ExactPairs(patterns, candidates) = {}
              /\ MatchingPairs(patterns, candidates) # {} )
            => \E e \in MatchingPairs(patterns, candidates) :
                  /\ selected = Ok(<<candidates[e[2]], patterns[e[1]]>>)
                  /\ \A o \in MatchingPairs(patterns, candidates) :
                        e = o \/ Better(patterns, candidates, e, o)
    IN  Selected => Holds(ByDescendingQuality(requested),
                          sorted_available(available))

\* A pair was returned for its lower parameter distance although another
\* pair of the same match type had been met before it.
C24_Witness ==
    LET Seen(patterns, candidates) ==
            /\ ExactPairs(patterns, candidates) = {}
            /\ \E e, o \in MatchingPairs(patterns, candidates) :
                  /\ selected = Ok(<<candidates[e[2]], patterns[e[1]]>>)
                  /\ Earlier(o, e)
                  /\ MatchType(patterns[o[1]]) = MatchType(patterns[e[1]])
                  /\ ParameterDistance(candidates[e[2]], patterns[e[1]])
                         < ParameterDistance(candidates[o[2]], patterns[o[1]])
    IN  /\ Selected
        /\ Seen(ByDescendingQuality(requested), sorted_available(available))

(***************************************************************************)
(* C25, C26: patterns of quality 0                                         *)
(***************************************************************************)

\* C25: select_content_type never returns a pair whose pattern has quality
\* 0.0, also when the candidate matches that pattern through a wildcard or
\* with differing parameters.
C25_ZeroQualityPatternNeverReturned ==
    (Selected /\ selected.exc = "") => selected.val[2].quality # Float(0)

\* C26: NoMatch is raised only when no candidate is acceptable: when some
\* candidate matches a requested pattern of quality above 0, a pair is
\* returned, also when another candidate equals a pattern of quality 0.
C26_NoMatchOnlyWhenNothingAcceptable ==
    LET Acceptable(candidate, pattern) ==
            /\ Matches(candidate, pattern)
            /\ pattern.quality # Float(0)
    IN  ( /\ Selected
          /\ \E i \in 1..Len(requested), j \in 1..Len(available) :
                 Acceptable(available[j], requested[i]) )
        => selected.exc = ""

(***************************************************************************)
(* C27: the order of the candidates                                        *)
(***************************************************************************)

\* C27: the outcome of select_content_type, the returned pair or NoMatch,
\* is the same for the candidates listed in the opposite order.
C27_OutcomeIndependentOfCandidateOrder ==
    Selected
    => selected = select_content_type_default(requested, Reverse(available),
                                              default)

(***************************************************************************)
(* C28: ContentType.__lt__ as an order                                     *)
(***************************************************************************)

\* The ContentType values of the call: the patterns and the candidates.
ComparedValues == Range(requested) \cup Range(available)

\* C28: ContentType < is a strict partial order: irreflexive, asymmetric
\* and transitive; a value whose type is * is below every value whose type
\* is not *, and a value whose subtype is * is below every value whose
\* subtype is not *.
C28_LtIsStrictPartialOrder ==
    Selected =>
        \A a, b, c \in ComparedValues :
            /\ ~ContentTypeLt(a, a)
            /\ ~(ContentTypeLt(a, b) /\ ContentTypeLt(b, a))
            /\ (ContentTypeLt(a, b) /\ ContentTypeLt(b, c))
                   => ContentTypeLt(a, c)
            /\ (a.content_type = <<"*">> /\ b.content_type # <<"*">>)
                   => ContentTypeLt(a, b)
            /\ (a.content_subtype = <<"*">> /\ b.content_subtype # <<"*">>)
                   => ContentTypeLt(a, b)

(***************************************************************************)
(* C29: comments                                                           *)
(***************************************************************************)

\* The text without its first parenthesised span: from the first "(" to the
\* first ")" after it.
FirstSpanRemoved(value) ==
    LET Opens == {i \in 1..Len(value) : value[i] = "("}
        Least(set) == CHOOSE i \in set : \A j \in set : i <= j
        Closes(open) == {j \in 1..Len(value) : j > open /\ value[j] = ")"}
        Cut(open, close) ==
            SubSeq(value, 1, open - 1) \o SubSeq(value, close + 1, Len(value))
        From(open) ==
            IF Closes(open) = {} THEN value
            ELSE Cut(open, Least(Closes(open)))
    IN  IF Opens = {} THEN value ELSE From(Least(Opens))

\* C29: comment removal in parse_content_type and parse_link deletes only
\* the first parenthesised span and keeps every character outside it; a
\* parameter or a link written between that span and a later one is still
\* parsed.
C29_OnlyFirstCommentSpanRemoved ==
    /\ pc \in {"parse_content_type", "parse_link"}
           => _remove_comments(argument) = FirstSpanRemoved(argument)
    /\ ( /\ pc = "parse_content_type"
         /\ written[2] \in {ParameterText.comment_first,
                             ParameterText.two_comments}
         /\ returned.exc = "" )
           => \E p \in Range(returned.val.parameters) : p[1] = <<"x">>
    /\ ( /\ pc = "parse_link"
         /\ Range(written) \subseteq {LinkText.bare, LinkText.commented} )
           => /\ returned.exc = ""
              /\ Len(returned.val) = Len(written)

(***************************************************************************)
(* C30: parse_list on empty input                                          *)
(***************************************************************************)

\* C30: parse_list returns a list for every input string, with one trimmed
\* item for each piece between top-level commas: the empty string, an empty
\* piece and an empty quoted string do not make it fail.
C30_ParseListNeverFails ==
    pc = "parse_list"
    => /\ returned.exc = ""
       /\ Len(returned.val) = Len(Flatten([i \in 1..Len(written) |->
                                              DeclaredItems(written[i])]))

====
